---------------------------- MODULE Spec2Model ----------------------------
(***************************************************************************)
(* A model of the syllabus ETL (remgo696/ETL-UPC-Syllabus): the section    *)
(* segmenter, the filename parser, the unit-table and assessment-table     *)
(* reconstructors and the period calendar.                                 *)
(*                                                                         *)
(* Text.  A Python str is a sequence of atoms.  Every character an         *)
(* operation of the code looks at (digits, '-', '%', ':', ',', blanks,     *)
(* bullets, the letters of a filename) is an atom of its own; a longer     *)
(* atom is a word, or one of the literals the code tests with startswith   *)
(* or ==, that always occurs whole.  The empty str is << >>.               *)
(*                                                                         *)
(* Each component has its own variables and its own specification; the     *)
(* variables of the other components keep the value Idle.                  *)
(***************************************************************************)
EXTENDS Integers, Sequences, FiniteSets, TLC

VARIABLES
    raw_text,         \* SyllabusRaw.raw_text: the pages, each a str
    section,          \* the last _get_section call: its argument and outcome
    sections,         \* the text of every title of the vocabulary, once taken
    filename,         \* the file name handed to the filename parsers
    metadata,         \* outcome of UPCSyllabusParser.parse_metadata
    raw_meta,         \* SyllabusRaw.period / id / nrc
    units_table,      \* the raw unit table handed to _parse_units_from_table
    units,            \* its outcome
    draft_units,      \* outcome of the earlier draft, Unit.from_raw, on that table
    period,           \* weeks_to_dates: the period
    week1,            \* weeks_to_dates: week1
    week2,            \* weeks_to_dates: week2 (None when not given)
    dates,            \* outcome of weeks_to_dates
    assessments_table,\* the raw assessment table
    assessments,      \* outcome of ETLPipeline._parse_assessments_from_table
    exams,            \* outcome of Exam.from_raw on the same table
    document,         \* the document handed to the assembler: file name, pages, raw tables
    course,           \* outcome of ETLPipeline._build_course
    draft_course,     \* outcome of the earlier draft, Course.from_raw
    saved,            \* outcome of JSONRepository.save: the file and its record
    draft_saved,      \* outcome of Course.to_json
    pdf_files,        \* process_directory: the documents found, 1..n
    futures,          \* the state of each document's future
    started,          \* how many times process_syllabus began on each document
    yielded,          \* the futures as_completed has yielded
    processed_courses,\* the list process_directory builds
    returned,         \* what process_directory has returned
    pdf_pages,        \* the pages of the PDF: text, table, where the table's text begins
    extracted,        \* outcome of PDFPlumberExtractor.extract_tables
    syllabus_raw,     \* outcome of the earlier draft, SyllabusRaw.from_pdf
    batch,            \* the Courses two workers save, one each
    save_pc,          \* where each of the two workers is in JSONRepository.save
    files,            \* the output directory: the content of each file
    join_table,       \* the table clean_table_structure is repairing
    join_index,       \* the index handed to join_with_previous
    joined,           \* the table after join_with_previous
    syllabi_path,     \* the PDF files SyllabusRaw.find_syllabi returned, in its order
    syllabi_raw,      \* what extract returned
    courses           \* what transform returned

vars == <<raw_text, section, sections, filename, metadata, raw_meta,
          units_table, units, draft_units, period, week1, week2, dates,
          assessments_table, assessments, exams,
          document, course, draft_course, saved, draft_saved,
          pdf_files, futures, started, yielded, processed_courses, returned,
          pdf_pages, extracted, syllabus_raw,
          batch, save_pc, files,
          join_table, join_index, joined,
          syllabi_path, syllabi_raw, courses>>

segVars   == <<raw_text, section, sections>>
fileVars  == <<filename, metadata, raw_meta>>
unitVars  == <<units_table, units, draft_units>>
dateVars  == <<period, week1, week2, dates>>
examVars  == <<assessments_table, assessments, exams>>
asmVars   == <<document, course, draft_course, saved, draft_saved>>
poolVars == <<pdf_files, futures, started, yielded, processed_courses, returned>>
extVars == <<pdf_pages, extracted, syllabus_raw>>
repoVars == <<batch, save_pc, files>>
joinVars == <<join_table, join_index, joined>>
driverVars == <<syllabi_path, syllabi_raw, courses>>

Idle == "idle"          \* a variable of a component that is not running
SegmenterIdle == raw_text = Idle /\ section = Idle /\ sections = Idle
FilenameIdle == filename = Idle /\ metadata = Idle /\ raw_meta = Idle
UnitsIdle == units_table = Idle /\ units = Idle /\ draft_units = Idle
DatesIdle == period = Idle /\ week1 = Idle /\ week2 = Idle /\ dates = Idle
AssessmentsIdle == assessments_table = Idle /\ assessments = Idle /\ exams = Idle
AssemblerIdle == document = Idle /\ course = Idle /\ draft_course = Idle /\ saved = Idle /\ draft_saved = Idle
PoolIdle == pdf_files = Idle /\ futures = Idle /\ started = Idle /\ yielded = Idle /\ processed_courses = Idle /\ returned = Idle
ExtractorIdle == pdf_pages = Idle /\ extracted = Idle /\ syllabus_raw = Idle
RepositoryIdle == batch = Idle /\ save_pc = Idle /\ files = Idle
JoinIdle == join_table = Idle /\ join_index = Idle /\ joined = Idle
DriverIdle == syllabi_path = Idle /\ syllabi_raw = Idle /\ courses = Idle
NotRun == [status |-> "not run"]     \* the outcome of a call not made yet

(***************************************************************************)
(* str helpers                                                             *)
(***************************************************************************)
Blank == {" ", "\n", "\t"}

Digit == {"0", "1", "2", "3", "4", "5", "6", "7", "8", "9"}

DigitVal(c) ==
    CASE c = "0" -> 0 [] c = "1" -> 1 [] c = "2" -> 2 [] c = "3" -> 3
      [] c = "4" -> 4 [] c = "5" -> 5 [] c = "6" -> 6 [] c = "7" -> 7
      [] c = "8" -> 8 [] c = "9" -> 9

\* s[a:b] of Python, for 0 <= a and b already clipped by the caller
Slice(s, a, b) ==
    IF b <= a THEN << >> ELSE SubSeq(s, a + 1, IF b > Len(s) THEN Len(s) ELSE b)

RECURSIVE LStrip(_)
LStrip(s) == IF s /= << >> /\ Head(s) \in Blank THEN LStrip(Tail(s)) ELSE s

RECURSIVE RStrip(_)
RStrip(s) ==
    IF s /= << >> /\ s[Len(s)] \in Blank THEN RStrip(SubSeq(s, 1, Len(s) - 1)) ELSE s

\* str.strip()
Strip(s) == RStrip(LStrip(s))

\* str.startswith(p)
StartsWith(s, p) == Len(s) >= Len(p) /\ SubSeq(s, 1, Len(p)) = p

\* sub in s
Contains(s, sub) ==
    \E i \in 0..(Len(s) - Len(sub)) : SubSeq(s, i + 1, i + Len(sub)) = sub

\* the digits of a str of digits, as a number
RECURSIVE DigitsVal(_)
DigitsVal(s) ==
    IF s = << >> THEN 0 ELSE 10 * DigitsVal(SubSeq(s, 1, Len(s) - 1)) + DigitVal(s[Len(s)])

AllDigits(s) == s /= << >> /\ \A i \in 1..Len(s) : s[i] \in Digit

\* int(s): blanks around, an optional sign, digits.  Fails (ValueError) otherwise.
IntOk(s) ==
    LET t == Strip(s)
        u == IF t /= << >> /\ Head(t) \in {"-", "+"} THEN Tail(t) ELSE t
    IN  AllDigits(u)

IntOf(s) ==
    LET t == Strip(s)
    IN  IF Head(t) = "-" THEN 0 - DigitsVal(Tail(t))
        ELSE IF Head(t) = "+" THEN DigitsVal(Tail(t))
        ELSE DigitsVal(t)

RECURSIVE Flatten(_)
Flatten(ss) == IF ss = << >> THEN << >> ELSE Head(ss) \o Flatten(Tail(ss))

\* sep.join(parts)
RECURSIVE Join(_, _)
Join(sep, parts) ==
    IF parts = << >> THEN << >>
    ELSE IF Len(parts) = 1 THEN parts[1]
    ELSE parts[1] \o sep \o Join(sep, Tail(parts))

\* the sequences over S of length 0..n
SeqUpTo(S, n) == UNION {[1..k -> S] : k \in 0..n}


(***************************************************************************)
(* Section segmenter: SyllabusRaw._get_section                             *)
(***************************************************************************)
SECTION_NAMES ==
    << <<"I. INFORMACIÓN GENERAL">>, <<"II. MISIÓN Y VISIÓN DE LA UPC">>,
       <<"III. INTRODUCCIÓN">>, <<"IV. LOGRO (S) DEL CURSO">>,
       <<"V. COMPETENCIAS (S) DEL CURSO">>, <<"VI. UNIDADES DE APRENDIZAJE">>,
       <<"VII. METODOLOGÍA">>, <<"VIII. EVALUACIÓN">>,
       <<"IX. BIBLIOGRAFÍA DEL CURSO">>, <<"X. RECURSOS TECNOLÓGICOS">>,
       <<"XI. Anexos">> >>

SectionNameSet == {SECTION_NAMES[i] : i \in 1..Len(SECTION_NAMES)}

\* str.splitlines(): the pieces between line breaks, no empty piece at the end
RECURSIVE SplitLinesFrom(_, _)
SplitLinesFrom(s, cur) ==
    IF s = << >> THEN (IF cur = << >> THEN << >> ELSE <<cur>>)
    ELSE IF Head(s) = "\n" THEN <<cur>> \o SplitLinesFrom(Tail(s), << >>)
    ELSE SplitLinesFrom(Tail(s), Append(cur, Head(s)))

SplitLines(s) == SplitLinesFrom(s, << >>)

\* the inner loop of _get_section over the lines of one page; `break` leaves
\* the rest of the page unread and in_section as it is
RECURSIVE ScanLines(_, _, _, _)
ScanLines(lines, section_name, in_section, section_content) ==
    IF lines = << >>
    THEN [in_section |-> in_section, section_content |-> section_content]
    ELSE LET line == Head(lines)
         IN  IF Contains(line, section_name)
             THEN ScanLines(Tail(lines), section_name, TRUE, section_content)
             ELSE IF in_section
             THEN IF line \in SectionNameSet
                  THEN [in_section |-> in_section, section_content |-> section_content]
                  ELSE ScanLines(Tail(lines), section_name, in_section,
                                 Append(section_content, line))
             ELSE ScanLines(Tail(lines), section_name, in_section, section_content)

\* the outer loop of _get_section over the pages
RECURSIVE ScanPages(_, _, _, _)
ScanPages(pages, section_name, in_section, section_content) ==
    IF pages = << >> THEN section_content
    ELSE LET r == ScanLines(SplitLines(Head(pages)), section_name,
                            in_section, section_content)
         IN  ScanPages(Tail(pages), section_name, r.in_section, r.section_content)

get_section(pages, section_name) ==
    IF section_name \notin SectionNameSet
    THEN [name |-> section_name, status |-> "ValueError", text |-> << >>]
    ELSE [name |-> section_name, status |-> "ok",
          text |-> Join(<<"\n">>, ScanPages(pages, section_name, FALSE, << >>))]

\* ---- the documents of the model
MaxItems == 4      \* lines and page breaks of a document

PageBreak == <<"<page break>">>

BodyLines == { <<"Nombre del Curso : Circuitos">>, <<"Semanas : 16">> }

DocTitles == {SECTION_NAMES[1], SECTION_NAMES[2]}

DocLines == DocTitles \cup BodyLines

\* the pages of a flat sequence of lines and page breaks
RECURSIVE PagesFrom(_, _)
PagesFrom(items, cur) ==
    IF items = << >> THEN << Join(<<"\n">>, cur) >>
    ELSE IF Head(items) = PageBreak
    THEN << Join(<<"\n">>, cur) >> \o PagesFrom(Tail(items), << >>)
    ELSE PagesFrom(Tail(items), Append(cur, Head(items)))

Documents == { PagesFrom(f, << >>) : f \in SeqUpTo(DocLines \cup {PageBreak}, MaxItems) }

\* the names _get_section is called with: two titles the documents use, one
\* they never use, and a name outside the vocabulary
QueriedNames == DocTitles \cup {SECTION_NAMES[6], <<"XII. OTROS">>}

InitSegmenter ==
    /\ raw_text \in Documents
    /\ section = NotRun
    /\ sections = NotRun
    /\ FilenameIdle /\ UnitsIdle /\ DatesIdle /\ AssessmentsIdle /\ AssemblerIdle /\ PoolIdle /\ ExtractorIdle /\ RepositoryIdle /\ JoinIdle /\ DriverIdle

GetSection(section_name) ==
    /\ section' = get_section(raw_text, section_name)
    /\ UNCHANGED <<raw_text, sections, fileVars, unitVars, dateVars, examVars, asmVars, poolVars, extVars, repoVars, joinVars, driverVars>>

\* _get_section for every title of the vocabulary
GetAllSections ==
    /\ sections' = [status |-> "ok",
                    texts |-> [i \in 1..Len(SECTION_NAMES) |->
                                  get_section(raw_text, SECTION_NAMES[i]).text]]
    /\ UNCHANGED <<raw_text, section, fileVars, unitVars, dateVars, examVars, asmVars, poolVars, extVars, repoVars, joinVars, driverVars>>

NextSegmenter ==
    \/ \E n \in QueriedNames : GetSection(n)
    \/ GetAllSections

SpecSegmenter == InitSegmenter /\ [][NextSegmenter]_vars

(***************************************************************************)
(* C1, C2: what the section texts are claimed to be                        *)
(***************************************************************************)
AllLines(pages) == Flatten([i \in 1..Len(pages) |-> SplitLines(pages[i])])

\* the lines after an occurrence of the title up to the next title line
RECURSIVE LinesOfSection(_, _, _)
LinesOfSection(lines, title, inside) ==
    IF lines = << >> THEN << >>
    ELSE IF Head(lines) = title THEN LinesOfSection(Tail(lines), title, TRUE)
    ELSE IF Head(lines) \in SectionNameSet THEN LinesOfSection(Tail(lines), title, FALSE)
    ELSE (IF inside THEN <<Head(lines)>> ELSE << >>)
         \o LinesOfSection(Tail(lines), title, inside)

\* C1: _get_section(S) returns, in page order, exactly the lines that follow
\* an occurrence of the title S up to the next line that is a title; no line
\* of a later page is added once a later title was reached.
C1_SectionIsLinesUpToNextTitle ==
    section.status = "ok" => section.text = Join(<<"\n">>, LinesOfSection(AllLines(raw_text), section.name, FALSE))

Count(seq, x) == Cardinality({i \in 1..Len(seq) : seq[i] = x})

\* C2: over all titles of the vocabulary, the section texts hold every
\* non-title line of the raw input exactly once.
C2_EveryLineExactlyOnce ==
    sections.status = "ok" =>
        LET got == Flatten([i \in 1..Len(sections.texts) |-> SplitLines(sections.texts[i])])
            raw == AllLines(raw_text)
        IN  \A l \in DocLines \ SectionNameSet : Count(got, l) = Count(raw, l)


(***************************************************************************)
(* Filename parser: UPCSyllabusParser.parse_metadata and                   *)
(* SyllabusRaw._parse_filename / period / id / nrc                         *)
(***************************************************************************)
Upper == {"A", "B", "C", "D", "E", "F", "G", "H", "I", "J", "K", "L", "M",
          "N", "O", "P", "Q", "R", "S", "T", "U", "V", "W", "X", "Y", "Z"}

\* [A-Z0-9_\-]
IdChar == Upper \cup Digit \cup {"_", "-"}

\* ^UG-(?P<period>\d{5})0_(?P<id>[A-Z0-9_\-]{8})-(?P<nrc>\d{4})\.pdf$
\* ($ also matches before one line break at the end)
FILENAME_PATTERN(name) ==
    LET f == IF Len(name) = 28 /\ name[28] = "\n" THEN SubSeq(name, 1, 27) ELSE name
    IN  /\ Len(f) = 27
        /\ SubSeq(f, 1, 3) = <<"U", "G", "-">>
        /\ \A i \in 4..8 : f[i] \in Digit
        /\ f[9] = "0"
        /\ f[10] = "_"
        /\ \A i \in 11..18 : f[i] \in IdChar
        /\ f[19] = "-"
        /\ \A i \in 20..23 : f[i] \in Digit
        /\ SubSeq(f, 24, 27) = <<".", "p", "d", "f">>

\* m.groupdict()
groupdict(name) ==
    [period |-> SubSeq(name, 4, 8), id |-> SubSeq(name, 11, 18), nrc |-> SubSeq(name, 20, 23)]

parse_metadata(name) ==
    IF FILENAME_PATTERN(name)
    THEN LET data == groupdict(name)
             year == Slice(data.period, 0, 4)
             term == Slice(data.period, 4, Len(data.period))
         IN  [status |-> "ok", course_id |-> data.id, nrc |-> data.nrc,
              period |-> year \o <<"-">> \o term]
    ELSE [status |-> "ValueError"]

\* SyllabusRaw._parse_filename: {} when the name does not match
parse_filename(name) ==
    IF FILENAME_PATTERN(name) THEN groupdict(name)
    ELSE [period |-> << >>, id |-> << >>, nrc |-> << >>]   \* .get(key, '')

\* the properties SyllabusRaw.period, .id, .nrc
syllabus_raw_meta(name) ==
    LET d == parse_filename(name)
        year == Slice(d.period, 0, 4)
        term == Slice(d.period, 4, Len(d.period))
    IN  [status |-> "ok", period |-> year \o <<"-">> \o term, id |-> d.id, nrc |-> d.nrc]

\* ---- the file names of the model: every choice of the parts
NamePrefixes == { <<"U", "G", "-">>, <<"U", "G", "_">>, <<"u", "g", "-">> }
NamePeriods == { <<"2", "0", "2", "5", "2">>, <<"2", "0", "2", "6", "1">>,
                 <<"2", "0", "2", "5">>, <<"2", "0", "2", "5", "X">> }
NameSubTerms == { <<"0">>, <<"1">>, <<"2">> }
NameIds == { <<"1", "A", "E", "L", "0", "2", "4", "4">>,
             <<"1", "A", "-", "L", "_", "2", "4", "4">>,
             <<"1", "a", "e", "l", "0", "2", "4", "4">>,
             <<"1", "A", "E", "L", "0", "2", "4">> }
NameNrcs == { <<"8", "2", "8", "1">>, <<"0", "0", "4", "2">>,
              <<"8", "2", "8">>, <<"8", "2", "A", "1">> }
NameExts == { <<".", "p", "d", "f">>, <<".", "P", "D", "F">> }

Filenames ==
    { a \o b \o c \o <<"_">> \o d \o <<"-">> \o e \o x :
        a \in NamePrefixes, b \in NamePeriods, c \in NameSubTerms,
        d \in NameIds, e \in NameNrcs, x \in NameExts }

InitFilename ==
    /\ filename \in Filenames
    /\ metadata = NotRun
    /\ raw_meta = NotRun
    /\ SegmenterIdle /\ UnitsIdle /\ DatesIdle /\ AssessmentsIdle /\ AssemblerIdle /\ PoolIdle /\ ExtractorIdle /\ RepositoryIdle /\ JoinIdle /\ DriverIdle

ParseMetadata ==
    /\ metadata' = parse_metadata(filename)
    /\ UNCHANGED <<filename, raw_meta, segVars, unitVars, dateVars, examVars, asmVars, poolVars, extVars, repoVars, joinVars, driverVars>>

ReadRawMeta ==
    /\ raw_meta' = syllabus_raw_meta(filename)
    /\ UNCHANGED <<filename, metadata, segVars, unitVars, dateVars, examVars, asmVars, poolVars, extVars, repoVars, joinVars, driverVars>>

NextFilename == ParseMetadata \/ ReadRawMeta

SpecFilename == InitFilename /\ [][NextFilename]_vars

(***************************************************************************)
(* C3                                                                      *)
(***************************************************************************)
\* the documented pattern: UG-<5 digits><1 digit>_<8-char code>-<4 digits>.pdf
DocumentedPattern(f) ==
    /\ Len(f) = 27
    /\ SubSeq(f, 1, 3) = <<"U", "G", "-">>
    /\ \A i \in 4..9 : f[i] \in Digit
    /\ f[10] = "_"
    /\ \A i \in 11..18 : f[i] \in IdChar
    /\ f[19] = "-"
    /\ \A i \in 20..23 : f[i] \in Digit
    /\ SubSeq(f, 24, 27) = <<".", "p", "d", "f">>

\* C3: a file name of the documented pattern (any sub-term digit) parses to
\* the matched id and nrc and to the period "<4 digits>-<5th digit>"; any
\* other name is a failure, never a partial result (an empty id, a period "-").
C3_FilenameParserTotalAndExact ==
    /\ metadata.status /= "not run" =>
         IF DocumentedPattern(filename)
         THEN /\ metadata.status = "ok"
              /\ metadata.course_id = SubSeq(filename, 11, 18)
              /\ metadata.nrc = SubSeq(filename, 20, 23)
              /\ metadata.period = SubSeq(filename, 4, 7) \o <<"-">> \o <<filename[8]>>
         ELSE metadata.status = "ValueError"
    /\ raw_meta.status /= "not run" =>
         IF DocumentedPattern(filename)
         THEN /\ raw_meta.id = SubSeq(filename, 11, 18)
              /\ raw_meta.nrc = SubSeq(filename, 20, 23)
              /\ raw_meta.period = SubSeq(filename, 4, 7) \o <<"-">> \o <<filename[8]>>
         ELSE raw_meta.id /= << >> /\ raw_meta.period /= <<"-">>


(***************************************************************************)
(* Period calendar: weeks_to_dates                                         *)
(*                                                                         *)
(* A date is its proleptic Gregorian ordinal (date.toordinal()), so        *)
(* timedelta(weeks=k) adds 7 * k and timedelta(days=5) adds 5.  A Python   *)
(* value is a record [type, value].                                        *)
(***************************************************************************)
PyInt(n) == [type |-> "int", value |-> n]
PyNone == [type |-> "NoneType", value |-> 0]
PyStr(x) == [type |-> "str", value |-> x]

\* config.json, as in the example of the specification:
\* "2025-2": start_date 2025-08-18 (ordinal 739481), end_date 2025-12-01 (739586)
ConfigData ==
    [p \in {"2025-2"} |-> [start_date |-> 739481, end_date |-> 739586]]

weeks_to_dates(p, w1, w2) ==
    IF w1.type /= "int" THEN [status |-> "ValueError", why |-> "week1 must be an integer"]
    ELSE IF w2.type \notin {"int", "NoneType"}
    THEN [status |-> "ValueError", why |-> "week2 must be an integer or None"]
    ELSE IF p \notin DOMAIN ConfigData THEN [status |-> "KeyError", why |-> p]
    ELSE LET start_date == ConfigData[p].start_date + 7 * (w1.value - 1)
         IN  IF w2.type = "int" /\ w2.value /= 0      \* if week2:
             THEN IF w1.value > w2.value
                  THEN [status |-> "ValueError", why |-> "Rango de semanas inválido"]
                  ELSE [status |-> "ok", start_date |-> start_date,
                        end_date |-> ConfigData[p].end_date + 7 * (w2.value - 1)]
             ELSE [status |-> "ok", start_date |-> start_date, end_date |-> start_date + 5]

MaxWeek == 16      \* the largest week number tried

WeekNumbers == (0 - 1)..MaxWeek

Periods == {"2025-2", "2030-1"}     \* the second one is not in config.json

InitDates ==
    /\ period \in Periods
    /\ week1 \in {PyInt(n) : n \in WeekNumbers} \cup {PyStr("3")}
    /\ week2 \in {PyInt(n) : n \in WeekNumbers} \cup {PyNone, PyStr("4")}
    /\ dates = NotRun
    /\ SegmenterIdle /\ FilenameIdle /\ UnitsIdle /\ AssessmentsIdle /\ AssemblerIdle /\ PoolIdle /\ ExtractorIdle /\ RepositoryIdle /\ JoinIdle /\ DriverIdle

WeeksToDates ==
    /\ dates' = weeks_to_dates(period, week1, week2)
    /\ UNCHANGED <<period, week1, week2, segVars, fileVars, unitVars, examVars, asmVars, poolVars, extVars, repoVars, joinVars, driverVars>>

NextDates == WeeksToDates

SpecDates == InitDates /\ [][NextDates]_vars

(***************************************************************************)
(* C6, C7                                                                  *)
(***************************************************************************)
Called == dates.status /= "not run"

Configured == period \in DOMAIN ConfigData

\* C6: for all integer week pairs, w1 > w2 is a range-validation failure and
\* w1 = w2 is accepted.
C6_RangeValidation ==
    (Called /\ Configured /\ week1.type = "int" /\ week2.type = "int") =>
        /\ week1.value > week2.value => dates.status = "ValueError"
        /\ week1.value = week2.value => dates.status = "ok"

\* C7: for a configured period with start_date S and end_date E, a range
\* (w1, w2), w1 <= w2, gives (S + (w1-1) weeks, E + (w2-1) weeks), and a
\* single week w gives (S + (w-1) weeks, that date + 5 days); 2025-2 with the
\* range (1, 16) gives 2025-08-18 and 2025-12-01 + 15 weeks.
C7_DatesOfWeeks ==
    (Called /\ Configured /\ week1.type = "int") =>
        LET S == ConfigData[period].start_date
            E == ConfigData[period].end_date
        IN  /\ (week2.type = "int" /\ week1.value <= week2.value) =>
                  /\ dates.status = "ok"
                  /\ dates.start_date = S + 7 * (week1.value - 1)
                  /\ dates.end_date = E + 7 * (week2.value - 1)
            /\ week2.type = "NoneType" =>
                  /\ dates.status = "ok"
                  /\ dates.start_date = S + 7 * (week1.value - 1)
                  /\ dates.end_date = dates.start_date + 5
            /\ (period = "2025-2" /\ week1 = PyInt(1) /\ week2 = PyInt(16)) =>
                  (dates.start_date = 739481 /\ dates.end_date = 739586 + 15 * 7)


\* C7 away from the week-2 value 0, which the code reads as "no week2"
C7_DatesOfWeeksNonZero == week2 /= PyInt(0) => C7_DatesOfWeeks

(***************************************************************************)
(* Assessment table: ETLPipeline._parse_assessments_from_table and the     *)
(* earlier draft Exam.from_raw                                             *)
(*                                                                         *)
(* A float is its value in tenths (20.0 is 200); the weight cells of the   *)
(* model carry at most one decimal.                                        *)
(***************************************************************************)
\* the index of the first atom of s that is c, 0 when there is none
RECURSIVE FindFrom(_, _, _)
FindFrom(s, c, i) ==
    IF i > Len(s) THEN 0 ELSE IF s[i] = c THEN i ELSE FindFrom(s, c, i + 1)

Find(s, c) == FindFrom(s, c, 1)

\* float(s): blanks around, an optional sign, digits with an optional point
FloatBody(s) ==
    LET t == Strip(s)
    IN  IF t /= << >> /\ Head(t) \in {"-", "+"} THEN Tail(t) ELSE t

FloatOk(s) ==
    LET u == FloatBody(s)
        dot == Find(u, ".")
        whole == IF dot = 0 THEN u ELSE SubSeq(u, 1, dot - 1)
        frac == IF dot = 0 THEN << >> ELSE SubSeq(u, dot + 1, Len(u))
    IN  /\ \A i \in 1..Len(whole) : whole[i] \in Digit
        /\ \A i \in 1..Len(frac) : frac[i] \in Digit
        /\ whole \o frac /= << >>

FloatOf(s) ==
    LET t == Strip(s)
        u == FloatBody(s)
        dot == Find(u, ".")
        whole == IF dot = 0 THEN u ELSE SubSeq(u, 1, dot - 1)
        frac == IF dot = 0 THEN << >> ELSE SubSeq(u, dot + 1, Len(u))
        tenths == 10 * DigitsVal(whole) + (IF frac = << >> THEN 0 ELSE DigitVal(frac[1]))
    IN  IF Head(t) = "-" THEN 0 - tenths ELSE tenths

\* s.rstrip('%')
RECURSIVE RStripPercent(_)
RStripPercent(s) ==
    IF s /= << >> /\ s[Len(s)] = "%" THEN RStripPercent(SubSeq(s, 1, Len(s) - 1)) ELSE s

\* s[:-1]
DropLast(s) == IF s = << >> THEN << >> ELSE SubSeq(s, 1, Len(s) - 1)

\* field.replace('\n', ' ')
ReplaceNewlines(s) == [i \in 1..Len(s) |-> IF s[i] = "\n" THEN " " ELSE s[i]]

\* str.lower(), on the letters the cells of the model use
LowerAtom(c) ==
    CASE c = "S" -> "s" [] c = "I" -> "i" [] c = "Í" -> "í"
      [] c = "N" -> "n" [] c = "O" -> "o" [] OTHER -> c

Lower(s) == [i \in 1..Len(s) |-> LowerAtom(s[i])]

\* the index of the last atom of s that is c, 0 when there is none
RECURSIVE FindLast(_, _, _)
FindLast(s, c, i) ==
    IF i < 1 THEN 0 ELSE IF s[i] = c THEN i ELSE FindLast(s, c, i - 1)

\* row[0].rsplit('-', 1): the cell split at its last '-'
SplitLastDash(s) ==
    LET k == FindLast(s, "-", Len(s))
    IN  IF k = 0 THEN <<s, << >> >>
        ELSE <<SubSeq(s, 1, k - 1), SubSeq(s, k + 1, Len(s))>>

\* row[0].split('-', 1), as the pair (before, after), when '-' is in the cell
SplitFirstDash(s) ==
    LET k == Find(s, "-")
    IN  IF k = 0 THEN <<s, << >> >>
        ELSE <<SubSeq(s, 1, k - 1), SubSeq(s, k + 1, Len(s))>>

AssessmentHeader ==
    << <<"TIPO">>, <<"COMPETENCIA">>, <<"PESO">>, <<"SEMANA">>,
       <<"OBSERVACIÓN">>, <<"RECUPERABLE">> >>

\* the body of the loop of _parse_assessments_from_table for one row:
\* the list with the row's Assessment appended, or the list as it was
assessment_row(found, raw_row) ==
    IF raw_row = AssessmentHeader THEN found
    ELSE LET row == [i \in 1..Len(raw_row) |-> Strip(ReplaceNewlines(raw_row[i]))]
         IN  IF Len(row) < 4 THEN found
             ELSE LET parts == SplitFirstDash(row[1])
                      name == parts[1]
                      code == Strip(parts[2])
                      weight_text == RStripPercent(row[3])
                  IN  IF ~IntOk(row[4]) THEN found
                      ELSE Append(found,
                             [name |-> name, code |-> code,
                              weight |-> IF FloatOk(weight_text) THEN FloatOf(weight_text) ELSE 0,
                              week |-> IntOf(row[4]),
                              is_recoverable |->
                                  Len(row) > 5 /\ Contains(Lower(row[6]), <<"s", "í">>)])

RECURSIVE assessment_rows(_, _)
assessment_rows(found, table) ==
    IF table = << >> THEN found
    ELSE assessment_rows(assessment_row(found, Head(table)), Tail(table))

\* the loop with `break` where the code has `continue` on a week that is no
\* integer
parse_assessments_break_on_bad_week(table) ==
    LET bad == {k \in 1..Len(table) :
                   /\ table[k] /= AssessmentHeader
                   /\ Len(table[k]) >= 4
                   /\ ~IntOk(ReplaceNewlines(table[k][4]))}
        stop == IF bad = {} THEN Len(table)
                ELSE (CHOOSE k \in bad : \A j \in bad : k <= j) - 1
    IN  [status |-> "ok", list |-> assessment_rows(<< >>, SubSeq(table, 1, stop))]

parse_assessments_from_table(table) ==
    IF table = << >> THEN [status |-> "ok", list |-> << >>]
    ELSE [status |-> "ok", list |-> assessment_rows(<< >>, table)]

\* Exam.from_raw: the loop; row[3] of a row of fewer than four cells raises
RECURSIVE exam_rows(_, _, _)
exam_rows(found, table, p) ==
    IF table = << >> THEN [status |-> "ok", list |-> found]
    ELSE LET raw_row == Head(table)
             row == [i \in 1..Len(raw_row) |-> Strip(raw_row[i])]
         IN  IF raw_row = AssessmentHeader THEN exam_rows(found, Tail(table), p)
             ELSE IF Len(row) < 4 THEN [status |-> "IndexError", list |-> << >>]
             ELSE LET parts == SplitFirstDash(row[1])
                      weight_text == DropLast(row[3])
                  IN  IF ~IntOk(row[4]) THEN exam_rows(found, Tail(table), p)
                      ELSE exam_rows(
                             Append(found,
                               [name |-> parts[1], abrev |-> parts[2],
                                weight |-> IF FloatOk(weight_text) THEN FloatOf(weight_text) ELSE 0,
                                period |-> p, week |-> IntOf(row[4])]),
                             Tail(table), p)

exam_from_raw(table, p) == exam_rows(<< >>, table, p)

\* ---- the tables of the model
MaxRows == 3       \* rows of an assessment table

ExampleRow ==      \* the row of the specification's example
    << <<"Examen Parcial", "-", "EP1">>, <<"C1">>, <<"2", "0", "%">>, <<"8">>,
       << >>, <<"N", "o">> >>

AssessmentRows ==
    { AssessmentHeader,
      ExampleRow,
      \* a week that is no integer
      << <<"Tarea", "-", "TA1">>, <<"C2">>, <<"1", "0", "%">>, <<"ocho">>, << >>, <<"S", "í">> >>,
      \* no '-' in the first cell, a weight that is no number
      << <<"Trabajo Final">>, <<"C1">>, <<"N", "/", "A">>, <<"1", "6">>, << >>, <<"S", "I">> >>,
      \* two '-', a decimal weight, a line break in a cell
      << <<"Control", " ", "-", " ", "CL", "-", "1">>, <<"C3">>, <<"1", "2", ".", "5", "%">>,
         <<"4", "\n">>, << >>, <<"N", "o">> >>,
      \* a weight without the percent sign, five cells
      << <<"Practica", "-", "PC1">>, <<"C3">>, <<"1", "5">>, <<"1", "2">>, << >> >>,
      \* the weight of the example row without the percent sign
      << <<"Examen Final", "-", "EF1">>, <<"C1">>, <<"2", "0">>, <<"1", "6">>, << >>, <<"N", "o">> >>,
      \* a number followed by a footnote mark
      << <<"Participacion", "-", "PA">>, <<"C1">>, <<"5", "*">>, <<"3">>, << >>, <<"N", "o">> >>,
      \* a weight above 100, a week 0
      << <<"Laboratorio", "-", "LB1">>, <<"C2">>, <<"1", "5", "0", "%">>, <<"0">>, << >>,
         <<"N", "o">> >>,
      \* a negative weight, a negative week
      << <<"Exposicion", "-", "EX1">>, <<"C2">>, <<"-", "5", "%">>, <<"-", "3">>, << >>,
         <<"N", "o">> >>,
      \* a row of fewer than four cells
      << <<"Cronograma">> >> }

AssessmentTables == SeqUpTo(AssessmentRows, MaxRows)

InitAssessments ==
    /\ assessments_table \in AssessmentTables
    /\ assessments = NotRun
    /\ exams = NotRun
    /\ SegmenterIdle /\ FilenameIdle /\ UnitsIdle /\ DatesIdle /\ AssemblerIdle /\ PoolIdle /\ ExtractorIdle /\ RepositoryIdle /\ JoinIdle /\ DriverIdle

ParseAssessments ==
    /\ assessments' = parse_assessments_from_table(assessments_table)
    /\ UNCHANGED <<assessments_table, exams, segVars, fileVars, unitVars, dateVars, asmVars, poolVars, extVars, repoVars, joinVars, driverVars>>

ExamFromRaw ==
    /\ exams' = exam_from_raw(assessments_table, <<"2", "0", "2", "5", "-", "2">>)
    /\ UNCHANGED <<assessments_table, assessments, segVars, fileVars, unitVars, dateVars, asmVars, poolVars, extVars, repoVars, joinVars, driverVars>>

NextAssessments == ParseAssessments \/ ExamFromRaw

SpecAssessments == InitAssessments /\ [][NextAssessments]_vars

(***************************************************************************)
(* C8, C9, C10                                                             *)
(***************************************************************************)
\* a row that is no header row and whose week cell reads as an integer
HasWeek(r) == r /= AssessmentHeader /\ Len(r) >= 4 /\ IntOk(r[4])

\* a row that is dropped because its week cell does not read as an integer
BadWeek(r) == r /= AssessmentHeader /\ Len(r) >= 4 /\ ~IntOk(r[4])

RowsWithWeek(table) == SelectSeq(table, HasWeek)

\* the first cell up to its first '-', or all of it
NameOf(r) ==
    LET cell == Strip(r[1])
    IN  IF \E k \in 1..Len(cell) : cell[k] = "-"
        THEN LET k == CHOOSE k \in 1..Len(cell) :
                        cell[k] = "-" /\ \A j \in 1..(k - 1) : cell[j] /= "-"
             IN  SubSeq(cell, 1, k - 1)
        ELSE cell

\* what follows the first '-' of the first cell, trimmed; "" without a '-'
CodeOf(r) ==
    LET cell == Strip(r[1])
    IN  IF \E k \in 1..Len(cell) : cell[k] = "-"
        THEN LET k == CHOOSE k \in 1..Len(cell) :
                        cell[k] = "-" /\ \A j \in 1..(k - 1) : cell[j] /= "-"
             IN  Strip(SubSeq(cell, k + 1, Len(cell)))
        ELSE << >>

\* the list is the rows with a week, in their order
SameRows(list, table) ==
    LET kept == RowsWithWeek(table)
    IN  /\ Len(list) = Len(kept)
        /\ \A k \in 1..Len(kept) :
              list[k].name = NameOf(kept[k]) /\ list[k].week = IntOf(kept[k][4])

\* C8: the Assessments produced are the input rows in input order without the
\* header rows and the rows whose week cell is no integer; the rows after a
\* dropped row are still emitted, in their order.
C8_RowsKeptInOrder ==
    /\ assessments.status = "ok" => SameRows(assessments.list, assessments_table)
    /\ exams.status = "ok" => SameRows(exams.list, assessments_table)

\* a row with a bad week between two rows that are emitted
C8_Witness ==
    /\ assessments.status = "ok"
    /\ Len(assessments_table) = 3
    /\ HasWeek(assessments_table[1])
    /\ BadWeek(assessments_table[2])
    /\ HasWeek(assessments_table[3])
    /\ assessments_table[1] /= assessments_table[3]
    /\ Len(assessments.list) = 2

\* C9: the first cell is split at its first '-' into name and code (the code
\* trimmed), the code is "" without a '-'; the example row gives
\* name "Examen Parcial", code "EP1", weight 20.0, week 8, not recoverable.
C9_NameAndCode ==
    assessments.status = "ok" =>
        LET kept == RowsWithWeek(assessments_table)
        IN  /\ Len(assessments.list) = Len(kept)
            /\ \A k \in 1..Len(kept) :
                  /\ assessments.list[k].name = NameOf(kept[k])
                  /\ assessments.list[k].code = CodeOf(kept[k])
                  /\ kept[k] = ExampleRow =>
                        assessments.list[k] =
                            [name |-> <<"Examen Parcial">>, code |-> <<"EP1">>,
                             weight |-> 200, week |-> 8, is_recoverable |-> FALSE]

\* the example row, a row with two '-' and a row with none were parsed
C9_Witness ==
    /\ assessments.status = "ok"
    /\ Len(assessments.list) = 3
    /\ \E k \in 1..3 : assessments.list[k].name = <<"Examen Parcial">>
    /\ \E k \in 1..3 : assessments.list[k].code = <<"CL", "-", "1">>
    /\ \E k \in 1..3 : assessments.list[k].name = <<"Trabajo Final">>
                        /\ assessments.list[k].code = << >>

\* the weight cell without one trailing '%' is no number
WeightFails(r) ==
    LET cell == Strip(r[3])
        text == IF cell /= << >> /\ cell[Len(cell)] = "%" THEN DropLast(cell) ELSE cell
    IN  ~FloatOk(text)

ZeroOnWeightFailure(list, table) ==
    LET kept == RowsWithWeek(table)
    IN  /\ Len(list) = Len(kept)
        /\ \A k \in 1..Len(kept) : WeightFails(kept[k]) => list[k].weight = 0

\* C10: a row whose weight cell is no number (after removing a trailing %) and
\* whose week is an integer is emitted with weight 0.0, never dropped.
C10_WeightFailureGivesZero ==
    /\ assessments.status = "ok" => ZeroOnWeightFailure(assessments.list, assessments_table)
    /\ exams.status = "ok" => ZeroOnWeightFailure(exams.list, assessments_table)

\* C10 for the pipeline's parser alone
C10_PipelineWeightFailureGivesZero ==
    assessments.status = "ok" => ZeroOnWeightFailure(assessments.list, assessments_table)

(***************************************************************************)
(* Unit table: ETLPipeline._parse_units_from_table                         *)
(*                                                                         *)
(* A table is a sequence of rows, a row a sequence of cells.  Indices of   *)
(* the code start at 0: table[i] of the code is table[i + 1] here.         *)
(***************************************************************************)
UNIDAD == "Unidad n."
COMPETENCIA == "COMPETENCIA (S):"
LOGRO == "LOGRO DE LA UNIDAD:"
SEMANA_HEADER == "SEMANA"
SEMANA == "Semana"

\* the two bullet glyphs, U+F0B7 and U+2022
Bullets == {"<U+F0B7>", "<U+2022>"}

\* re.split(r"[•]", text)
RECURSIVE SplitBullets(_, _)
SplitBullets(s, cur) ==
    IF s = << >> THEN <<cur>>
    ELSE IF Head(s) \in Bullets THEN <<cur>> \o SplitBullets(Tail(s), << >>)
    ELSE SplitBullets(Tail(s), Append(cur, Head(s)))

NonEmpty(s) == s /= << >>

\* _parse_bullet_list
parse_bullet_list(text) ==
    LET pieces == SplitBullets(text, << >>)
    IN  SelectSeq([i \in 1..Len(pieces) |-> Strip(pieces[i])], NonEmpty)

\* join_with_previous with `table[index-1] = curr_row` for the merged row
join_keep_fragment(table, index) ==
    IF index <= 0 \/ index >= Len(table) THEN table
    ELSE SubSeq(table, 1, index - 1) \o SubSeq(table, index + 1, Len(table))

\* join_with_previous(index) on the table: the table after it
join_with_previous(table, index) ==
    IF index <= 0 \/ index >= Len(table) THEN table
    ELSE LET prev_row == table[index]          \* table[index-1]
             curr_row == table[index + 1]      \* table[index]
             n == IF Len(prev_row) < Len(curr_row) THEN Len(prev_row) ELSE Len(curr_row)
             zipped == [k \in 1..n |->
                          IF curr_row[k] /= << >>
                          THEN Strip(Strip(prev_row[k]) \o <<" ">> \o Strip(curr_row[k]))
                          ELSE prev_row[k]]
             new_row == IF Len(curr_row) > Len(prev_row)
                        THEN zipped \o SubSeq(curr_row, Len(prev_row) + 1, Len(curr_row))
                        ELSE zipped
         IN  SubSeq(table, 1, index - 1) \o <<new_row>> \o SubSeq(table, index + 2, Len(table))

FirstIs(table, i, literal) == StartsWith(table[i + 1][1], <<literal>>)

\* clean_table_structure from position i of its outer loop; `at` is the place
\* in the loop body: "title", "competency", "achievement", "header", "week",
\* "rest".  The repaired table, or the ValueError raised.
RECURSIVE clean_from(_, _, _)
clean_from(table, i, at) ==
    CASE at = "title" ->
           IF ~(i < Len(table)) THEN [status |-> "ok", table |-> table]
           ELSE IF ~FirstIs(table, i, UNIDAD)
           THEN [status |-> "ValueError", why |-> "Invalid unit title format"]
           ELSE clean_from(table, i + 1, "competency")
      [] at = "competency" ->
           IF i < Len(table) /\ ~FirstIs(table, i, COMPETENCIA)
           THEN [status |-> "ValueError", why |-> "Invalid competition format"]
           ELSE clean_from(table, i + 1, "achievement")
      [] at = "achievement" ->
           IF i < Len(table) /\ ~FirstIs(table, i, LOGRO)
           THEN IF i = Len(table) - 1
                THEN [status |-> "ValueError", why |-> "Invalid achievement format"]
                ELSE clean_from(join_with_previous(table, i), i, "achievement")
           ELSE clean_from(table, i + 1, "header")
      [] at = "header" ->
           IF i < Len(table) /\ ~FirstIs(table, i, SEMANA_HEADER)
           THEN IF i = Len(table) - 1
                THEN [status |-> "ValueError", why |-> "Invalid header format"]
                ELSE clean_from(join_with_previous(table, i), i, "header")
           ELSE clean_from(table, i + 1, "week")
      [] at = "week" ->
           IF i < Len(table) /\ ~FirstIs(table, i, SEMANA)
           THEN [status |-> "ValueError", why |-> "Invalid week format"]
           ELSE clean_from(table, i + 1, "rest")
      [] at = "rest" ->
           IF i < Len(table) /\ ~FirstIs(table, i, UNIDAD)
           THEN clean_from(join_with_previous(table, i), i, "rest")
           ELSE clean_from(table, i, "title")

clean_table_structure(table) == clean_from(table, 0, "title")

\* the length of the run of atoms of S in s from index `from`
RECURSIVE RunLen(_, _, _)
RunLen(s, from, S) ==
    IF from > Len(s) \/ s[from] \notin S THEN 0 ELSE 1 + RunLen(s, from + 1, S)

\* ^Unidad n\. (?P<numero>\d+): (?P<titulo>.+)
parse_title(line) ==
    LET d == RunLen(line, 3, Digit)
        t == RunLen(line, 5 + d, {x \in {line[k] : k \in 1..Len(line)} : x /= "\n"})
    IN  IF /\ Len(line) >= 2 /\ line[1] = UNIDAD /\ line[2] = " "
           /\ d >= 1
           /\ Len(line) >= 4 + d /\ line[3 + d] = ":" /\ line[4 + d] = " "
           /\ t >= 1
        THEN [status |-> "ok", number |-> DigitsVal(SubSeq(line, 3, 2 + d)),
              title |-> SubSeq(line, 5 + d, 4 + d + t)]
        ELSE [status |-> "ValueError", why |-> "Invalid unit title format"]

\* [\d,\s-]
WeekClass == Digit \cup {",", "-"} \cup Blank

\* Semana (?P<semana1>[\d,\s-]+)<sep>(?P<semana2>[\d,\s-]+) on what follows
\* "Semana ", where <sep> is \s*-\s* (loose) or " - " (not loose): the groups
\* of the first match in the order the regex engine tries them, semana1 as
\* long as possible.
WeekGroups(rest, loose) ==
    LET n == RunLen(rest, 1, WeekClass)
        Dash(n1) == IF loose THEN n1 + RunLen(rest, n1 + 1, Blank) + 1 ELSE n1 + 2
        After(n1) == IF loose THEN Dash(n1) + RunLen(rest, Dash(n1) + 1, Blank) + 1
                     ELSE Dash(n1) + 2
        InClass(a) == a <= Len(rest) /\ rest[a] \in WeekClass
        Fits(n1) ==
            /\ Dash(n1) <= Len(rest) /\ rest[Dash(n1)] = "-"
            /\ IF loose THEN InClass(After(n1)) \/ After(n1) > Dash(n1) + 1
               ELSE /\ rest[n1 + 1] = " "
                    /\ Dash(n1) + 1 <= Len(rest) /\ rest[Dash(n1) + 1] = " "
                    /\ InClass(After(n1))
        fits == {n1 \in 1..n : Fits(n1)}
    IN  IF fits = {} THEN [matched |-> FALSE]
        ELSE LET n1 == CHOOSE x \in fits : \A y \in fits : y <= x
                 a == After(n1)
             IN  [matched |-> TRUE,
                  semana1 |-> SubSeq(rest, 1, n1),
                  semana2 |-> IF InClass(a)
                              THEN SubSeq(rest, a, a + RunLen(rest, a, WeekClass) - 1)
                              ELSE <<rest[a - 1]>>]

\* parse_week_row
parse_week_row(raw_row) ==
    LET row == [k \in 1..Len(raw_row) |-> ReplaceNewlines(raw_row[k])]
        cell == row[1]
        g == IF Len(cell) >= 2 /\ cell[1] = SEMANA /\ cell[2] = " "
             THEN WeekGroups(SubSeq(cell, 3, Len(cell)), TRUE)
             ELSE [matched |-> FALSE]
    IN  IF ~g.matched THEN [status |-> "ValueError", why |-> "Invalid week format"]
        ELSE IF ~IntOk(g.semana1) \/ ~IntOk(g.semana2)
        THEN [status |-> "ValueError", why |-> "invalid literal for int()"]
        ELSE [status |-> "ok", week1 |-> IntOf(g.semana1), week2 |-> IntOf(g.semana2),
              syllabus |-> IF Len(row) > 1 THEN parse_bullet_list(row[2]) ELSE << >>,
              activities |-> IF Len(row) > 2 THEN parse_bullet_list(row[3]) ELSE << >>]

\* s.replace("LOGRO DE LA UNIDAD:", "")
RemoveLogro(s) == SelectSeq(s, LAMBDA x : x /= LOGRO)

\* the loop `for i in range(0, len(table), 5)` from i on
RECURSIVE units_from(_, _, _)
units_from(table, i, found) ==
    IF i >= Len(table) THEN [status |-> "ok", list |-> found]
    ELSE LET t == parse_title(table[i + 1][1])
         IN  IF t.status /= "ok" THEN [status |-> "ValueError", why |-> t.why]
             ELSE IF i + 2 >= Len(table) THEN [status |-> "IndexError", why |-> "table[i+2]"]
             ELSE IF i + 4 >= Len(table) THEN [status |-> "IndexError", why |-> "table[i+4]"]
             ELSE LET w == parse_week_row(table[i + 5])
                  IN  IF w.status /= "ok" THEN [status |-> "ValueError", why |-> w.why]
                      ELSE units_from(table, i + 5,
                             Append(found,
                               [number |-> t.number, title |-> t.title,
                                achievement |-> Strip(RemoveLogro(table[i + 3][1])),
                                week_range |-> <<w.week1, w.week2>>,
                                syllabus |-> w.syllabus, activities |-> w.activities]))

\* the units loop with its `return units` inside the loop body
parse_units_return_in_loop(table) ==
    IF table = << >> THEN [status |-> "ok", list |-> << >>]
    ELSE LET cleaned == clean_table_structure(table)
         IN  IF cleaned.status /= "ok" THEN cleaned
             ELSE LET t == cleaned.table
                  IN  units_from(IF Len(t) > 5 THEN SubSeq(t, 1, 5) ELSE t, 0, << >>)

\* the units loop over the whole blocks of five rows only, as
\* `for i in range(0, len(table) - 4, 5)`
parse_units_whole_blocks(table) ==
    IF table = << >> THEN [status |-> "ok", list |-> << >>]
    ELSE LET cleaned == clean_table_structure(table)
         IN  IF cleaned.status /= "ok" THEN cleaned
             ELSE units_from(SubSeq(cleaned.table, 1, 5 * (Len(cleaned.table) \div 5)),
                             0, << >>)

parse_units_from_table(table) ==
    IF table = << >> THEN [status |-> "ok", list |-> << >>]
    ELSE LET cleaned == clean_table_structure(table)
         IN  IF cleaned.status /= "ok" THEN cleaned
             ELSE units_from(cleaned.table, 0, << >>)

(***************************************************************************)
(* The earlier draft: Unit.from_raw                                        *)
(***************************************************************************)
\* the names the loop has bound so far
NoNames == [has_number |-> FALSE, number |-> 0, title |-> << >>,
            has_weeks |-> FALSE, week1 |-> 0, week2 |-> 0]

\* the body of `while i < len(table)-1` from i on (i is the code's i)
RECURSIVE from_raw_loop(_, _, _, _)
from_raw_loop(table, i, found, names) ==
    IF ~(i < Len(table) - 1) THEN [status |-> "ok", list |-> found]
    ELSE IF ~StartsWith(table[i + 2][1], <<UNIDAD>>)
    THEN from_raw_loop(table, i + 1, found, names)
    ELSE LET t == parse_title(table[i + 2][1])
             named == IF t.status = "ok"
                      THEN [names EXCEPT !.has_number = TRUE, !.number = t.number,
                                         !.title = t.title]
                      ELSE names
         IN  IF i + 2 >= Len(table) THEN [status |-> "IndexError", why |-> "table[i]"]
             ELSE IF ~StartsWith(table[i + 3][1], <<COMPETENCIA>>)
             THEN from_raw_loop(table, i + 2, found, named)
             ELSE IF i + 3 >= Len(table) THEN [status |-> "IndexError", why |-> "table[i]"]
             ELSE IF ~StartsWith(table[i + 4][1], <<LOGRO>>)
             THEN from_raw_loop(table, i + 3, found, named)
             ELSE IF i + 4 >= Len(table) THEN [status |-> "IndexError", why |-> "table[i]"]
             ELSE IF table[i + 5][1] /= <<SEMANA_HEADER>>
             THEN from_raw_loop(table, i + 4, found, named)
             ELSE IF i + 5 >= Len(table) THEN [status |-> "IndexError", why |-> "table[i]"]
             ELSE IF ~StartsWith(table[i + 6][1], <<SEMANA>>)
             THEN from_raw_loop(table, i + 5, found, named)
             ELSE LET row == [k \in 1..Len(table[i + 6]) |-> ReplaceNewlines(table[i + 6][k])]
                      cell == row[1]
                      g == IF Len(cell) >= 2 /\ cell[2] = " "
                           THEN WeekGroups(SubSeq(cell, 3, Len(cell)), FALSE)
                           ELSE [matched |-> FALSE]
                      parsed_ok == g.matched => (IntOk(g.semana1) /\ IntOk(g.semana2))
                      weeks == IF g.matched /\ parsed_ok
                               THEN [named EXCEPT !.has_weeks = TRUE,
                                                  !.week1 = IntOf(g.semana1),
                                                  !.week2 = IntOf(g.semana2)]
                               ELSE named
                  IN  IF ~parsed_ok
                      THEN [status |-> "ValueError", why |-> "invalid literal for int()"]
                      ELSE IF Len(row) < 5 THEN [status |-> "IndexError", why |-> "row[k]"]
                      ELSE IF ~weeks.has_number \/ ~weeks.has_weeks
                      THEN [status |-> "UnboundLocalError", why |-> "number or week1"]
                      ELSE from_raw_loop(table, i + 5,
                             Append(found,
                               [number |-> weeks.number, title |-> weeks.title,
                                achievement |-> Strip(Tail(table[i + 4][1])),
                                init_week |-> weeks.week1, end_week |-> weeks.week2,
                                syllabus |-> parse_bullet_list(row[2]),
                                activities |-> parse_bullet_list(row[3]),
                                exams |-> parse_bullet_list(row[4]),
                                bibliography |-> parse_bullet_list(row[5])]),
                             weeks)

unit_from_raw(table) == from_raw_loop(table, 0 - 1, << >>, NoNames)

(***************************************************************************)
(* Unit tables as pdfplumber hands them over: blocks of five rows (title,  *)
(* competency, achievement, header, week row), every row five cells wide,  *)
(* possibly with one defect of the extraction.                             *)
(***************************************************************************)
MaxUnits == 2

\* str(n) for n >= 0
DigitOf(n) == CHOOSE c \in Digit : DigitVal(c) = n
RECURSIVE Decimal(_)
Decimal(n) == IF n < 10 THEN <<DigitOf(n)>> ELSE Append(Decimal(n \div 10), DigitOf(n % 10))

Row5(first, second, third) == <<first, second, third, << >>, << >>>>

TitleRow(n) ==
    Row5(<<UNIDAD, " ">> \o Decimal(n) \o <<":", " ", "Respuesta Completa">>, << >>, << >>)
CompetencyRow == Row5(<<COMPETENCIA>>, << >>, << >>)
AchievementRow == Row5(<<LOGRO, " ", "Al finalizar la unidad", "\n", "compara">>, << >>, << >>)
HeaderRow ==
    <<<<SEMANA_HEADER>>, <<"TEMARIO">>, <<"ACTIVIDADES DE", "\n", "APRENDIZAJE">>,
      <<"EVIDENCIAS DE", "\n", "APRENDIZAJE">>, <<"BIBLIOGRAFÍA">>>>
WeekRow(w) ==
    <<<<SEMANA, " ">> \o Decimal(w[1]) \o <<" ", "-", " ">> \o Decimal(w[2]),
      <<"<U+F0B7>", " ", "Tema A", "\n", "<U+2022>", "Tema B">>,
      <<"<U+F0B7>", " ", "Laboratorio">>, << >>, <<"Nilsson">>>>

UnitBlock(n, w) == <<TitleRow(n), CompetencyRow, AchievementRow, HeaderRow, WeekRow(w)>>

UnitNumbers == 1..3
WeekPairs == {<<1, 4>>, <<5, 3>>, <<9, 12>>}
BlockChoices == UnitNumbers \X WeekPairs

\* the tables of k well-formed blocks
RECURSIVE BlockTables(_)
BlockTables(k) ==
    IF k = 0 THEN {<< >>}
    ELSE {t \o UnitBlock(c[1], c[2]) : t \in BlockTables(k - 1), c \in BlockChoices}

\* a row that is a piece of the row above it, cut off by the extraction
Fragments == {Row5(<<"experimentales">>, <<"Tema C">>, << >>), <<<<"en", " ", "circuitos">>>>}

InsertRow(table, p, row) == SubSeq(table, 1, p) \o <<row>> \o SubSeq(table, p + 1, Len(table))

\* a table, or the table with one defect: a fragment row after row p, the
\* table cut after row l, a second week row, or a second and a third one,
\* after the week row of a block
Defective(t) ==
    {t} \cup {InsertRow(t, p, f) : p \in 1..Len(t), f \in Fragments}
        \cup {SubSeq(t, 1, l) : l \in 1..(Len(t) - 1)}
        \cup {InsertRow(t, 5 * j, WeekRow(<<13, 14>>)) : j \in 1..(Len(t) \div 5)}
        \cup {InsertRow(InsertRow(t, 5 * j, WeekRow(<<13, 14>>)), 5 * j + 1,
                        WeekRow(<<15, 16>>)) : j \in 1..(Len(t) \div 5)}

WellFormedTables == UNION {BlockTables(k) : k \in 0..MaxUnits}
UnitTables == UNION {Defective(t) : t \in WellFormedTables}

InitUnits ==
    /\ units_table \in UnitTables
    /\ units = NotRun
    /\ draft_units = NotRun
    /\ SegmenterIdle /\ FilenameIdle /\ DatesIdle /\ AssessmentsIdle /\ AssemblerIdle /\ PoolIdle /\ ExtractorIdle /\ RepositoryIdle /\ JoinIdle /\ DriverIdle

\* ETLPipeline._parse_units_from_table(units_table)
ParseUnits ==
    /\ units = NotRun
    /\ units' = parse_units_from_table(units_table)
    /\ UNCHANGED <<units_table, draft_units, segVars, fileVars, dateVars, examVars, asmVars, poolVars, extVars, repoVars, joinVars, driverVars>>

\* Unit.from_raw(units_table, period)
UnitFromRaw ==
    /\ draft_units = NotRun
    /\ draft_units' = unit_from_raw(units_table)
    /\ UNCHANGED <<units_table, units, segVars, fileVars, dateVars, examVars, asmVars, poolVars, extVars, repoVars, joinVars, driverVars>>

NextUnits == ParseUnits \/ UnitFromRaw

SpecUnits == InitUnits /\ [][NextUnits]_vars

(***************************************************************************)
(* C4, C5                                                                  *)
(***************************************************************************)
\* the week pairs with start <= end
OrderedPairs == {w \in WeekPairs : w[1] <= w[2]}

\* K consecutive blocks of five rows, each week row with start <= end
IsBlockTable(table) ==
    /\ Len(table) % 5 = 0
    /\ \A j \in 1..(Len(table) \div 5) :
          \E n \in UnitNumbers, w \in OrderedPairs :
              SubSeq(table, 5 * j - 4, 5 * j) = UnitBlock(n, w)

Blocks(table) == Len(table) \div 5

\* the titles are numbered 1..K in order
Sequential(table) == \A j \in 1..Blocks(table) : table[5 * j - 4] = TitleRow(j)

\* the first and the last week of a unit record, of the pipeline or the draft
RangeStart(u) == IF "week_range" \in DOMAIN u THEN u.week_range[1] ELSE u.init_week
RangeEnd(u) == IF "week_range" \in DOMAIN u THEN u.week_range[2] ELSE u.end_week

\* the list has one record per block, in the order of the blocks, with the
\* number of the block's title and the weeks of its week row
OneUnitPerBlock(list, table) ==
    /\ Len(list) = Blocks(table)
    /\ \A j \in 1..Blocks(table) :
          /\ table[5 * j - 4] = TitleRow(list[j].number)
          /\ table[5 * j] = WeekRow(<<RangeStart(list[j]), RangeEnd(list[j])>>)
    /\ Sequential(table) => \A j \in 1..Blocks(table) : list[j].number = j

\* C4: a table of K >= 0 consecutive well-formed blocks of five rows gives
\* exactly K Units in table order, each with the number of its title; with
\* titles numbered 1..K the numbers are 1..K in order.
C4_KBlocksGiveKUnits ==
    IsBlockTable(units_table) =>
        /\ units /= NotRun =>
              /\ units.status = "ok"
              /\ OneUnitPerBlock(units.list, units_table)
        /\ draft_units /= NotRun =>
              /\ draft_units.status = "ok"
              /\ OneUnitPerBlock(draft_units.list, units_table)

\* two blocks numbered 1, 2 were reconstructed
C4_Witness ==
    /\ IsBlockTable(units_table)
    /\ Blocks(units_table) = 2
    /\ Sequential(units_table)
    /\ units.status = "ok"
    /\ Len(units.list) = 2
    /\ units.list[1].number = 1
    /\ units.list[2].number = 2

\* the table has a week row "Semana a - b" with a > b in the place of a week row
HasReversedWeekRow(table) ==
    \E j \in 1..Len(table) : \E w \in WeekPairs : w[1] > w[2] /\ table[j] = WeekRow(w)

\* C5: a unit table with a week row "Semana a - b", a > b, is a parse failure,
\* and no Unit whose range starts after it ends is emitted.
C5_StartAfterEndIsFailure ==
    /\ units.status = "ok" =>
          /\ ~HasReversedWeekRow(units_table)
          /\ \A k \in 1..Len(units.list) : RangeStart(units.list[k]) <= RangeEnd(units.list[k])
    /\ draft_units.status = "ok" =>
          /\ ~HasReversedWeekRow(units_table)
          /\ \A k \in 1..Len(draft_units.list) :
                RangeStart(draft_units.list[k]) <= RangeEnd(draft_units.list[k])

(***************************************************************************)
(* C11                                                                     *)
(***************************************************************************)
\* the recoverable cell of the row holds "sí" or "si", whatever the case
Affirmative(r) ==
    /\ Len(r) > 5
    /\ \/ Contains(Lower(r[6]), <<"s", "í">>)
       \/ Contains(Lower(r[6]), <<"s", "i">>)

\* C11: is_recoverable of an emitted Assessment is true exactly when the
\* row's recoverable cell contains, case-insensitively, "sí" or "si"; "No" and
\* an absent cell give false.
C11_RecoverableIffAffirmative ==
    assessments.status = "ok" =>
        LET kept == RowsWithWeek(assessments_table)
        IN  /\ Len(assessments.list) = Len(kept)
            /\ \A k \in 1..Len(kept) :
                  assessments.list[k].is_recoverable = Affirmative(kept[k])

\* C11 with the accented token only, as the code tests it
C11_RecoverableIffAccented ==
    assessments.status = "ok" =>
        LET kept == RowsWithWeek(assessments_table)
        IN  /\ Len(assessments.list) = Len(kept)
            /\ \A k \in 1..Len(kept) :
                  assessments.list[k].is_recoverable =
                      (Len(kept[k]) > 5 /\ Contains(Lower(kept[k][6]), <<"s", "í">>))

(***************************************************************************)
(* Assembler: UPCSyllabusParser.parse_content, ETLPipeline._build_course,  *)
(* ETLPipeline.process_syllabus, JSONRepository.save, and the earlier      *)
(* draft Course.from_raw / Course.to_json                                  *)
(*                                                                         *)
(* The labels of the general-information section are atoms.  Of the fields *)
(* of a Course the model keeps the identity (id, nrc, period), the name,   *)
(* credits, weeks, units and assessments; faculty and areas are left out.  *)
(***************************************************************************)
\* the str of a sequence of atoms, as one value
RECURSIVE Text(_)
Text(s) == IF s = << >> THEN "" ELSE Head(s) \o Text(Tail(s))

NotNewline(s) == {s[k] : k \in 1..Len(s)} \ {"\n"}

\* re.compile(rf"{label}\s*[:\-]\s*(.+)").search(text): where the match is
\* (0 when there is none), the first place in the text where all of the
\* pattern fits
LabelSep(s, k) == k + 1 + RunLen(s, k + 1, Blank)

\* where (.+) may start after the separator at j: the regex gives \s* as
\* many blanks as leave (.+) one character that is no line break
ValueStarts(s, j) ==
    {p \in (j + 1)..(j + 1 + RunLen(s, j + 1, Blank)) : p <= Len(s) /\ s[p] /= "\n"}

LabelMatches(s, label, k) ==
    /\ s[k] = label
    /\ LabelSep(s, k) <= Len(s)
    /\ s[LabelSep(s, k)] \in {":", "-"}
    /\ ValueStarts(s, LabelSep(s, k)) /= {}

\* search_label(label): m.group(1) if m else ''
search_label(s, label) ==
    LET ks == {k \in 1..Len(s) : LabelMatches(s, label, k)}
    IN  IF ks = {} THEN << >>
        ELSE LET k == CHOOSE x \in ks : \A y \in ks : x <= y
                 ps == ValueStarts(s, LabelSep(s, k))
                 p == CHOOSE x \in ps : \A y \in ps : y <= x
             IN  SubSeq(s, p, p + RunLen(s, p, NotNewline(s)) - 1)

\* re.search(r"(\d+)", s): the first run of digits, << >> when there is none
FirstDigits(s) ==
    LET ds == {k \in 1..Len(s) : s[k] \in Digit}
    IN  IF ds = {} THEN << >>
        ELSE LET k == CHOOSE x \in ds : \A y \in ds : x <= y
             IN  SubSeq(s, k, k + RunLen(s, k, Digit) - 1)

\* full_text.find(atom, start): the index of the atom at or after start, 0 for -1
FindAtom(s, atom, start) ==
    LET ks == {k \in start..Len(s) : s[k] = atom}
    IN  IF ks = {} THEN 0 ELSE CHOOSE x \in ks : \A y \in ks : x <= y

\* UPCSyllabusParser.parse_content: parse_general_info(text_pages).
\* found is FALSE for the empty dict.
general_info_of_pages(text_pages) ==
    LET full_text == Join(<<"\n">>, text_pages)
        section_start == FindAtom(full_text, SECTION_NAMES[1][1], 1)
        section_end == IF section_start = 0 THEN 0
                       ELSE FindAtom(full_text, SECTION_NAMES[2][1], section_start)
        general_info_text ==
            SubSeq(full_text, section_start,
                   IF section_end = 0 THEN Len(full_text) ELSE section_end - 1)
        label(l) == Strip(search_label(general_info_text, l))
    IN  IF section_start = 0 THEN [found |-> FALSE]
        ELSE [found |-> TRUE,
              name |-> label("Nombre del Curso"),
              id |-> label("Código del curso"),
              period |-> label("Periodo"),
              credits |-> IF IntOk(label("Créditos")) THEN IntOf(label("Créditos")) ELSE 0,
              weeks |-> IF IntOk(label("Semanas")) THEN IntOf(label("Semanas")) ELSE 16,
              nrc |-> IF IntOk(label("NRC")) THEN IntOf(label("NRC")) ELSE 0]

\* UPCSyllabusParser.parse_content(text, tables)
parse_content(text, tables) ==
    [info |-> general_info_of_pages(text),
     units_table |-> tables.units,
     assessments_table |-> tables.assessments]

\* Course.from_raw: parse_general_info(text), text the section
\* SyllabusRaw.general_info.  A key the dict lacks reads as None.
general_info_of_section(text) ==
    LET label(l) == search_label(text, l)
        number(l) == IF label(l) = << >> \/ FirstDigits(label(l)) = << >> THEN PyNone
                     ELSE PyInt(DigitsVal(FirstDigits(label(l))))
    IN  IF text = << >>
        THEN [id |-> PyNone, name |-> PyNone, period |-> PyNone,
              credits |-> PyNone, weeks |-> PyNone, nrc |-> PyNone]
        ELSE [id |-> PyStr(label("Código del curso")),
              name |-> PyStr(label("Nombre del Curso")),
              period |-> PyStr(label("Periodo")),
              credits |-> number("Créditos"),
              weeks |-> number("Semanas"),
              nrc |-> IF IntOk(label("NRC")) THEN PyInt(IntOf(label("NRC"))) ELSE PyNone]

\* the dates JSONRepository writes for every unit and assessment:
\* '2025-08-25' and '2025-12-06', as day numbers
FixedInitialDate == 739488
FixedLastDate == 739591

\* ETLPipeline._build_course(metadata, content); nothing is logged
build_course(meta, content) ==
    LET us == parse_units_from_table(content.units_table)
        as == parse_assessments_from_table(content.assessments_table)
        info == content.info
    IN  IF us.status /= "ok" THEN [status |-> us.status]
        ELSE [status |-> "ok",
              log |-> << >>,
              course |->
                [metadata |-> [course_id |-> meta.course_id, nrc |-> meta.nrc,
                               period |-> meta.period],
                 name |-> IF info.found THEN info.name ELSE << >>,
                 credits |-> IF info.found THEN info.credits ELSE 0,
                 total_weeks |-> IF info.found THEN info.weeks ELSE 16,
                 units |-> us.list,
                 assessments |-> as.list]]

\* JSONRepository._unit_to_dict
unit_to_dict(unit) ==
    [number |-> unit.number, title |-> unit.title, achievement |-> unit.achievement,
     initial_week |-> unit.week_range[1], last_week |-> unit.week_range[2],
     initial_date |-> FixedInitialDate, last_date |-> FixedLastDate,
     syllabus |-> unit.syllabus, activities |-> unit.activities,
     exams |-> << >>, bibliography |-> << >>]

\* JSONRepository._assessment_to_dict
assessment_to_dict(a) ==
    [name |-> a.name, abrev |-> a.code, weight |-> a.weight, week |-> a.week,
     initial_date |-> FixedInitialDate, last_date |-> FixedLastDate]

\* JSONRepository._to_dict
to_dict(c) ==
    [id |-> c.metadata.course_id, name |-> c.name, period |-> c.metadata.period,
     credits |-> c.credits, weeks |-> c.total_weeks, nrc |-> c.metadata.nrc,
     units |-> [k \in 1..Len(c.units) |-> unit_to_dict(c.units[k])],
     assessments |-> [k \in 1..Len(c.assessments) |-> assessment_to_dict(c.assessments[k])]]

\* x or default
Or(x, default) == IF x = << >> THEN default ELSE x

\* JSONRepository.save(course): the file written and what is written
save(c) ==
    [status |-> "ok",
     file |-> Or(c.name, <<"unknown">>) \o <<"-">> \o Or(c.metadata.nrc, <<"no-nrc">>)
              \o <<".json">>,
     record |-> to_dict(c)]

\* ETLPipeline.process_syllabus up to _build_course: the Course or the
\* exception that process_syllabus catches
built_course(doc) ==
    LET meta == parse_metadata(doc.filename)
    IN  IF meta.status /= "ok" THEN [status |-> meta.status]
        ELSE build_course(meta, parse_content(doc.text, doc.tables))

\* str(x) of an int or None
PyStrOf(x) == IF x.type = "int" THEN
                  (IF x.value < 0 THEN <<"-">> \o Decimal(0 - x.value) ELSE Decimal(x.value))
              ELSE IF x.type = "NoneType" THEN <<"None">>
              ELSE x.value

WithPeriod(rec, p) ==
    [f \in DOMAIN rec \cup {"period"} |-> IF f = "period" THEN p ELSE rec[f]]

\* Course.from_raw(raw_data): the Course, what it printed, or the exception
from_raw_course(raw, parsed, us, exs) ==
    LET id_warning == IF parsed.id /= PyStr(raw.id)
                      THEN <<[warning |-> "Course ID mismatch",
                              content |-> parsed.id, filename |-> raw.id]>>
                      ELSE << >>
        nrc_warning == IF PyStrOf(parsed.nrc) /= raw.nrc
                       THEN <<[warning |-> "NRC mismatch",
                               content |-> parsed.nrc, filename |-> raw.nrc]>>
                       ELSE << >>
    IN  IF us.status /= "ok" THEN [status |-> us.status]
        ELSE IF exs.status /= "ok" THEN [status |-> exs.status]
        ELSE [status |-> "ok",
              log |-> id_warning \o nrc_warning,
              course |->
                [id |-> parsed.id, name |-> parsed.name, period |-> parsed.period,
                 credits |-> parsed.credits, weeks |-> parsed.weeks, nrc |-> parsed.nrc,
                 units |-> [k \in 1..Len(us.list) |-> WithPeriod(us.list[k], raw.period)],
                 assessments |-> exs.list]]

\* Course.from_raw(raw): the parts are computed once each (raw metadata, the
\* parsed general information, the units, the exams) and then put together
course_from_raw(doc) ==
    CHOOSE c \in
        {from_raw_course(raw, parsed, us, exs) :
            raw \in {syllabus_raw_meta(doc.filename)},
            parsed \in {general_info_of_section(general_info) :
                           general_info \in {get_section(doc.text, SECTION_NAMES[1]).text}},
            us \in {unit_from_raw(doc.tables.units)},
            exs \in {exam_from_raw(doc.tables.assessments,
                                   syllabus_raw_meta(doc.filename).period)}} : TRUE

\* Unit.to_dict
draft_unit_to_dict(u) ==
    LET d == weeks_to_dates(Text(u.period), PyInt(u.init_week), PyInt(u.end_week))
    IN  IF d.status /= "ok" THEN [status |-> d.status]
        ELSE [status |-> "ok",
              dict |-> [number |-> u.number, title |-> u.title,
                        achievement |-> u.achievement,
                        initial_week |-> u.init_week, last_week |-> u.end_week,
                        initial_date |-> d.start_date, last_date |-> d.end_date,
                        syllabus |-> u.syllabus, activities |-> u.activities,
                        exams |-> u.exams, bibliography |-> u.bibliography]]

\* Exam.to_dict
exam_to_dict(e) ==
    LET d == weeks_to_dates(Text(e.period), PyInt(e.week), PyNone)
    IN  IF d.status /= "ok" THEN [status |-> d.status]
        ELSE [status |-> "ok",
              dict |-> [name |-> e.name, abrev |-> e.abrev, weight |-> e.weight,
                        week |-> e.week,
                        initial_date |-> d.start_date, last_date |-> d.end_date]]

\* the first failure among outcomes, "ok" when there is none
FirstFailure(outs) ==
    LET bad == {k \in 1..Len(outs) : outs[k].status /= "ok"}
    IN  IF bad = {} THEN "ok" ELSE outs[CHOOSE x \in bad : \A y \in bad : x <= y].status

\* Course.to_json(dest_dir): the file written and what is written, or the
\* exception of to_dict
course_to_json(c) ==
    LET us == [k \in 1..Len(c.units) |-> draft_unit_to_dict(c.units[k])]
        es == [k \in 1..Len(c.assessments) |-> exam_to_dict(c.assessments[k])]
        name == IF c.name.type = "NoneType" THEN << >> ELSE c.name.value
        nrc == IF c.nrc.type = "NoneType" \/ c.nrc.value = 0 THEN << >> ELSE PyStrOf(c.nrc)
        file == Or(name, <<"unknown">>) \o <<"-">> \o Or(nrc, <<"no-nrc">>) \o <<".json">>
    IN  \* open(path, 'w') comes first: when to_dict raises the file is left empty
        IF FirstFailure(us) /= "ok"
        THEN [status |-> FirstFailure(us), file |-> file, record |-> "empty"]
        ELSE IF FirstFailure(es) /= "ok"
        THEN [status |-> FirstFailure(es), file |-> file, record |-> "empty"]
        ELSE [status |-> "ok",
              file |-> file,
              record |-> [id |-> c.id, name |-> c.name, period |-> c.period,
                          credits |-> c.credits, weeks |-> c.weeks, nrc |-> c.nrc,
                          units |-> [k \in 1..Len(us) |-> us[k].dict],
                          assessments |-> [k \in 1..Len(es) |-> es[k].dict]]]

\* ---- the documents of the model
DocFilenames ==
    { <<"U", "G", "-", "2", "0", "2", "5", "2", "0", "_",
        "1", "A", "E", "L", "0", "2", "4", "4", "-", "8", "2", "8", "1", ".", "p", "d", "f">>,
      \* a period that config.json does not have, an nrc with leading zeros
      <<"U", "G", "-", "2", "0", "3", "0", "1", "0", "_",
        "1", "A", "M", "A", "0", "1", "0", "2", "-", "0", "0", "4", "2", ".", "p", "d", "f">>,
      \* sub-term 1
      <<"U", "G", "-", "2", "0", "2", "5", "2", "1", "_",
        "1", "A", "E", "L", "0", "2", "4", "4", "-", "8", "2", "8", "1", ".", "p", "d", "f">> }

InfoLine(label, value) == <<label, " ", ":", " ">> \o value

NameLines == { << >>, <<InfoLine("Nombre del Curso", <<"Circuitos">>)>>,
               <<InfoLine("Nombre del Curso", <<"Redes">>)>> }
IdLines == { << >>,
             <<InfoLine("Código del curso", <<"1", "A", "E", "L", "0", "2", "4", "4">>)>>,
             <<InfoLine("Código del curso", <<"1", "A", "M", "A", "0", "1", "0", "2">>)>> }
NrcLines == { << >>, <<InfoLine("NRC", <<"8", "2", "8", "1">>)>>,
              <<InfoLine("NRC", <<"4", "2">>)>>,
              \* the line of the sample in the docstring of parse_general_info
              << <<"NRC", " ", "(Código de Registro de Nombre)", " ", ":", " ",
                   "8", "2", "8", "1">> >> }

\* one page: the title I, the lines, the title II; or a page without titles
DocTexts ==
    { << Join(<<"\n">>, <<SECTION_NAMES[1]>> \o n \o i \o <<InfoLine("Semanas", <<"1", "6">>)>>
                          \o c \o <<SECTION_NAMES[2]>>) >> :
        n \in NameLines, i \in IdLines, c \in NrcLines }
    \cup { << <<"Sílabo">> >> }

DocUnitTables ==
    { << >>,
      UnitBlock(1, <<1, 4>>),
      UnitBlock(1, <<1, 4>>) \o UnitBlock(2, <<9, 12>>),
      UnitBlock(2, <<9, 12>>) \o UnitBlock(1, <<1, 4>>),
      UnitBlock(1, <<1, 4>>) \o UnitBlock(1, <<9, 12>>),
      SubSeq(UnitBlock(1, <<1, 4>>), 1, 4) }

DocAssessmentTables ==
    { << >>,
      <<AssessmentHeader, ExampleRow>>,
      << << <<"Tarea", "-", "TA1">>, <<"C2">>, <<"1", "0", "%">>, <<"3">>, << >>, <<"S", "í">> >>,
         ExampleRow >> }

AssemblerDocuments ==
    { [filename |-> f, text |-> t, tables |-> [units |-> u, assessments |-> a]] :
        f \in DocFilenames, t \in DocTexts, u \in DocUnitTables, a \in DocAssessmentTables }

InitAssembler ==
    /\ document \in AssemblerDocuments
    /\ course = NotRun
    /\ saved = NotRun
    /\ draft_course = NotRun
    /\ draft_saved = NotRun
    /\ SegmenterIdle /\ FilenameIdle /\ UnitsIdle /\ DatesIdle /\ AssessmentsIdle /\ PoolIdle /\ ExtractorIdle /\ RepositoryIdle /\ JoinIdle /\ DriverIdle

\* ETLPipeline.process_syllabus(filepath): the Course is built and saved, or
\* the exception is caught and nothing is saved
ProcessSyllabus ==
    /\ course = NotRun
    /\ course' = built_course(document)
    /\ saved' = IF course'.status = "ok" THEN save(course'.course) ELSE saved
    /\ UNCHANGED <<document, draft_course, draft_saved,
                   segVars, fileVars, unitVars, dateVars, examVars, poolVars, extVars, repoVars, joinVars, driverVars>>

\* extract() and transform(): Course.from_raw(syllabus), for a file that
\* SyllabusRaw.find_syllabi finds
Transform ==
    /\ FILENAME_PATTERN(document.filename)
    /\ draft_course = NotRun
    /\ draft_course' = course_from_raw(document)
    /\ UNCHANGED <<document, course, saved, draft_saved,
                   segVars, fileVars, unitVars, dateVars, examVars, poolVars, extVars, repoVars, joinVars, driverVars>>

\* load(): course.to_json(dest_dir)
Load ==
    /\ draft_course.status = "ok"
    /\ draft_saved = NotRun
    /\ draft_saved' = course_to_json(draft_course.course)
    /\ UNCHANGED <<document, course, saved, draft_course,
                   segVars, fileVars, unitVars, dateVars, examVars, poolVars, extVars, repoVars, joinVars, driverVars>>

NextAssembler == ProcessSyllabus \/ Transform \/ Load

SpecAssembler == InitAssembler /\ [][NextAssembler]_vars

(***************************************************************************)
(* C12                                                                     *)
(***************************************************************************)
\* the course id written in the general-information text, << >> when none
ContentId == general_info_of_pages(document.text).id
\* the id decoded from the file name
FilenameId == groupdict(document.filename).id
\* the reference code written in the text (0 when none) and in the file name
ContentNrc == general_info_of_pages(document.text).nrc
FilenameNrc == groupdict(document.filename).nrc

HasGeneralInfo == general_info_of_pages(document.text).found

IdDiffers == HasGeneralInfo /\ ContentId /= << >> /\ ContentId /= FilenameId
NrcDiffers == HasGeneralInfo /\ ContentNrc /= 0 /\ Decimal(ContentNrc) /= FilenameNrc

Warned(log, what) == \E k \in 1..Len(log) : log[k].warning = what

\* C12 for Course.from_raw: a differing id or reference code is reported
\* and the Course carries the value of the text
C12_DraftPrefersContent ==
    draft_course.status = "ok" =>
        /\ IdDiffers => /\ Warned(draft_course.log, "Course ID mismatch")
                        /\ draft_course.course.id = PyStr(ContentId)
        /\ NrcDiffers => /\ Warned(draft_course.log, "NRC mismatch")
                         /\ draft_course.course.nrc = PyInt(ContentNrc)

\* C12: when the course id or the reference code of the general-information
\* text differs from the one of the file name, the mismatch is reported,
\* nothing is raised and the Course carries the value of the text.
C12_ContentIdentityPreferred ==
    /\ course.status = "ok" =>
          /\ IdDiffers => /\ Warned(course.log, "Course ID mismatch")
                          /\ course.course.metadata.course_id = ContentId
          /\ NrcDiffers => /\ Warned(course.log, "NRC mismatch")
                           /\ course.course.metadata.nrc = Decimal(ContentNrc)
    /\ C12_DraftPrefersContent


(***************************************************************************)
(* ETLPipeline.process_directory: the documents on the thread pool         *)
(*                                                                         *)
(* A document is its index in pdf_files.  The threads of the pool are      *)
(* interchangeable, so the model keeps the position of each document's     *)
(* call of process_syllabus and not which thread runs it.  What the steps  *)
(* of process_syllabus do to a document is modelled above; here a call     *)
(* runs to its end or raises at one of its steps.  A call touches only its *)
(* own document, so the calls in flight overlap as wholes: each one begins *)
(* (Take) and ends (Finish) at some point between the others.  The two     *)
(* writes after the pool (_save_all_courses, _generate_weekly_calendar)    *)
(* are taken to return.                                                    *)
(***************************************************************************)
MaxDocs == 5

\* ThreadPoolExecutor(max_workers=4)
max_workers == 4

\* the try block of process_syllabus, in order: extract (extract_text,
\* extract_tables), parse (parse_metadata, parse_content), assemble
\* (_build_course), persist (repository.save)
Steps == <<"extract", "parse", "assemble", "persist">>

Unsubmitted == {d \in pdf_files : futures[d].state = "unsubmitted"}
Queued == {d \in pdf_files : futures[d].state = "queued"}
Running == {d \in pdf_files : futures[d].state = "running"}
Done == {d \in pdf_files : futures[d].state \in {"Course", "None", "raised"}}

\* the except clause of process_syllabus re-raising instead of returning None
process_syllabus_reraise(step) == "raised"

\* except Exception as e: logger.error(...); return None
process_syllabus_except(step) == "None"

StepNames == {Steps[k] : k \in 1..Len(Steps)}

InitPool ==
    /\ SegmenterIdle /\ FilenameIdle /\ UnitsIdle /\ DatesIdle /\ AssessmentsIdle /\ AssemblerIdle /\ ExtractorIdle /\ RepositoryIdle /\ JoinIdle /\ DriverIdle
    /\ \E n \in 0..MaxDocs : pdf_files = 1..n
    /\ futures = [d \in pdf_files |-> [state |-> "unsubmitted", raised_at |-> "none"]]
    /\ started = [d \in pdf_files |-> 0]
    /\ yielded = {}
    /\ processed_courses = << >>
    /\ returned = NotRun

\* executor.submit(self.process_syllabus, pdf) for pdf in pdf_files
Submit ==
    /\ returned = NotRun
    /\ Unsubmitted /= {}
    /\ LET d == CHOOSE x \in Unsubmitted : \A y \in Unsubmitted : x <= y
       IN  futures' = [futures EXCEPT ![d].state = "queued"]
    /\ UNCHANGED <<pdf_files, started, yielded, processed_courses, returned, extVars, repoVars, joinVars, driverVars>>
    /\ UNCHANGED <<segVars, fileVars, unitVars, dateVars, examVars, asmVars, extVars, repoVars, joinVars, driverVars>>

\* a thread of the pool, of which there are at most max_workers, takes the
\* oldest work item and enters process_syllabus
Take ==
    /\ Queued /= {}
    /\ Cardinality(Running) < max_workers
    /\ LET d == CHOOSE x \in Queued : \A y \in Queued : x <= y
       IN  /\ futures' = [futures EXCEPT ![d].state = "running"]
           /\ started' = [started EXCEPT ![d] = @ + 1]
    /\ UNCHANGED <<pdf_files, yielded, processed_courses, returned, extVars, repoVars, joinVars, driverVars>>
    /\ UNCHANGED <<segVars, fileVars, unitVars, dateVars, examVars, asmVars, extVars, repoVars, joinVars, driverVars>>

\* a call of process_syllabus ends: every step returned and it returns the
\* Course, or one step raised and the except clause has the outcome
Finish ==
    \E d \in Running, raised_at \in StepNames \cup {"none"} :
        /\ futures' = [futures EXCEPT
              ![d] = [state |-> IF raised_at = "none" THEN "Course"
                                ELSE process_syllabus_except(raised_at),
                      raised_at |-> raised_at]]
        /\ UNCHANGED <<pdf_files, started, yielded, processed_courses, returned, extVars, repoVars, joinVars, driverVars>>
        /\ UNCHANGED <<segVars, fileVars, unitVars, dateVars, examVars, asmVars, extVars, repoVars, joinVars, driverVars>>

\* for future in as_completed(futures): if course := future.result():
\* processed_courses.append(course).  result() re-raises what the call raised.
Collect ==
    /\ returned = NotRun
    /\ Unsubmitted = {}
    /\ \E d \in Done \ yielded :
        /\ yielded' = yielded \cup {d}
        /\ processed_courses' = IF futures[d].state = "Course"
                                THEN Append(processed_courses, d)
                                ELSE processed_courses
        /\ returned' = IF futures[d].state = "raised" THEN [status |-> "raised"]
                       ELSE returned
    /\ UNCHANGED <<pdf_files, futures, started, extVars, repoVars, joinVars, driverVars>>
    /\ UNCHANGED <<segVars, fileVars, unitVars, dateVars, examVars, asmVars, extVars, repoVars, joinVars, driverVars>>

\* the with block ends once every future is done; return processed_courses
Return ==
    /\ returned = NotRun
    /\ yielded = pdf_files
    /\ returned' = [status |-> "ok", list |-> processed_courses]
    /\ UNCHANGED <<pdf_files, futures, started, yielded, processed_courses, extVars, repoVars, joinVars, driverVars>>
    /\ UNCHANGED <<segVars, fileVars, unitVars, dateVars, examVars, asmVars, extVars, repoVars, joinVars, driverVars>>

NextPool == Submit \/ Take \/ Finish \/ Collect \/ Return

SpecPool == InitPool /\ [][NextPool]_vars


\* how many times x is in the list
Occurrences(list, x) == Cardinality({k \in 1..Len(list) : list[k] = x})

\* the documents whose every step returned
Succeeded == {d \in pdf_files : futures[d].state = "Course" /\ futures[d].raised_at = "none"}

IsTruncated(table) ==
    LET k == Len(table) \div 5
        r == Len(table) % 5
    IN  /\ r /= 0
        /\ \A j \in 1..k : \E c \in BlockChoices :
              SubSeq(table, 5 * j - 4, 5 * j) = UnitBlock(c[1], c[2])
        /\ \E c \in BlockChoices :
              SubSeq(table, 5 * k + 1, Len(table)) = SubSeq(UnitBlock(c[1], c[2]), 1, r)

\* C14: on a unit table that ends inside a unit, after one to four of its
\* five rows and after any number of complete units, _parse_units_from_table
\* raises: it returns no list, neither of the complete units nor a longer one.
C14_TruncatedTableRaises ==
    (IsTruncated(units_table) /\ units /= NotRun) =>
        /\ units.status \in {"IndexError", "ValueError"}
        /\ "list" \notin DOMAIN units

\* a complete unit and then a title, a competency and an achievement row
C14_Witness ==
    /\ IsTruncated(units_table)
    /\ Len(units_table) = 8
    /\ units.status = "IndexError"


RemoveRow(table, q) == SubSeq(table, 1, q - 1) \o SubSeq(table, q + 1, Len(table))

\* the places q of the table that hold a fragment row after a row of a
\* well-formed table: without row q the table is K well-formed blocks
FragmentPlaces(table) ==
    {q \in 2..Len(table) : table[q] \in Fragments /\ IsBlockTable(RemoveRow(table, q))}

\* the kind of the row at place p of a table of blocks
KindAt(p) == <<"title", "competency", "achievement", "header", "week">>[((p - 1) % 5) + 1]

\* C15: a fragment row after a row of any of the five kinds, a title row and
\* a header row included, is merged into that row, and the table parses to as
\* many Units as it has blocks.
C15_FragmentAfterAnyKindMerged ==
    units /= NotRun =>
        \A q \in FragmentPlaces(units_table) :
            /\ units.status = "ok"
            /\ Len(units.list) = Blocks(RemoveRow(units_table, q))

\* C15 for a fragment after a competency, an achievement or a week row
C15_FragmentAfterThreeKindsMerged ==
    units /= NotRun =>
        \A q \in FragmentPlaces(units_table) :
            KindAt(q - 1) \in {"competency", "achievement", "week"} =>
                /\ units.status = "ok"
                /\ Len(units.list) = Blocks(RemoveRow(units_table, q))

\* a fragment after a title or a header row is a failure of the whole table
C15_FragmentAfterTitleOrHeaderRaises ==
    units /= NotRun =>
        \A q \in FragmentPlaces(units_table) :
            KindAt(q - 1) \in {"title", "header"} => units.status = "ValueError"


(***************************************************************************)
(* Table attribution: PDFPlumberExtractor.extract_tables and the earlier   *)
(* draft SyllabusRaw.from_pdf                                              *)
(*                                                                         *)
(* A page is what pdfplumber gives for it: the text of extract_text() (''  *)
(* for a page without text), the table of extract_table() (<< >> for       *)
(* None), and table_line, the line of the text where the text of the table *)
(* begins (0 without a table), which the code does not look at.            *)
(***************************************************************************)
MaxPages == 3

UNITS_TITLE == SECTION_NAMES[6]
ASSESSMENTS_TITLE == SECTION_NAMES[8]

\* the section list after the lines of a page: the title of the first line,
\* or the last section of the page before (none on page 1), and then the
\* last title among the other lines
sections_after_page(current_sections, lines, page_number, first_line_is_title) ==
    LET start == IF first_line_is_title THEN <<lines[1]>>
                 ELSE IF page_number > 1 /\ current_sections /= << >>
                 THEN <<current_sections[Len(current_sections)]>>
                 ELSE << >>
        later == {k \in 2..Len(lines) : lines[k] \in SectionNameSet}
    IN  IF later = {} THEN start
        ELSE <<lines[CHOOSE k \in later : \A j \in later : j <= k]>>

InList(title, list) == \E k \in 1..Len(list) : list[k] = title

\* extract_tables: the loop over pdf.pages from page k on
RECURSIVE extract_tables_from(_, _, _, _, _)
extract_tables_from(pages, k, current_sections, units_rows, assessments_rows) ==
    IF k > Len(pages)
    THEN [status |-> "ok", units |-> units_rows, assessments |-> assessments_rows]
    ELSE LET lines == SplitLines(pages[k].text)
             now == sections_after_page(current_sections, lines, k,
                        lines /= << >> /\ lines[1] \in SectionNameSet)
             table == pages[k].table
         IN  extract_tables_from(pages, k + 1, now,
                 IF table /= << >> /\ InList(UNITS_TITLE, now)
                 THEN units_rows \o table ELSE units_rows,
                 IF table /= << >> /\ ~InList(UNITS_TITLE, now)
                    /\ InList(ASSESSMENTS_TITLE, now)
                 THEN assessments_rows \o table ELSE assessments_rows)

extract_tables(pages) == extract_tables_from(pages, 1, << >>, << >>, << >>)

\* SyllabusRaw.from_pdf: the same loop, with lines[0] read on every page
RECURSIVE from_pdf_from(_, _, _, _, _)
from_pdf_from(pages, k, current_sections, units_rows, assessments_rows) ==
    IF k > Len(pages)
    THEN [status |-> "ok", units |-> units_rows, assessments |-> assessments_rows]
    ELSE LET lines == SplitLines(pages[k].text)
             now == sections_after_page(current_sections, lines, k,
                        lines[1] \in SectionNameSet)
             table == pages[k].table
         IN  IF lines = << >> THEN [status |-> "IndexError", why |-> "lines[0]"]
             ELSE from_pdf_from(pages, k + 1, now,
                     IF table /= << >> /\ InList(UNITS_TITLE, now)
                     THEN units_rows \o table ELSE units_rows,
                     IF table /= << >> /\ ~InList(UNITS_TITLE, now)
                        /\ InList(ASSESSMENTS_TITLE, now)
                     THEN assessments_rows \o table ELSE assessments_rows)

from_pdf(pages) == from_pdf_from(pages, 1, << >>, << >>, << >>)

\* what is on a page, from top to bottom: titles, a line of other text, the
\* table (two rows, each also a line of the text)
PageShapes ==
    { << >>,
      <<"text">>,
      <<"table">>,
      <<"text", "table">>,
      <<"VI", "table">>,
      <<"VI", "table", "VII">>,
      <<"V", "table", "VI">>,
      <<"text", "table", "VI">>,
      <<"VIII", "table">>,
      <<"VII", "text", "VIII">>,
      <<"VI", "text">>,
      <<"VII", "text">> }

TitleOf(item) ==
    CASE item = "V" -> SECTION_NAMES[5]
      [] item = "VI" -> SECTION_NAMES[6]
      [] item = "VII" -> SECTION_NAMES[7]
      [] item = "VIII" -> SECTION_NAMES[8]

\* row r of the table of page p
TableRow(p, r) == <<<<"página ">> \o Decimal(p), <<"fila ">> \o Decimal(r)>>
TableOf(p) == <<TableRow(p, 1), TableRow(p, 2)>>

\* the lines an item of page p puts into the text of the page
ItemLines(item, p) ==
    CASE item = "text" -> <<<<"Sílabo de Curso">>>>
      [] item = "table" -> [r \in 1..2 |-> Join(<<" ">>, TableRow(p, r))]
      [] OTHER -> <<TitleOf(item)>>

RECURSIVE ShapeLines(_, _)
ShapeLines(shape, p) ==
    IF shape = << >> THEN << >> ELSE ItemLines(Head(shape), p) \o ShapeLines(Tail(shape), p)

HasTable(shape) == \E k \in 1..Len(shape) : shape[k] = "table"

PageOf(shape, p) ==
    [text |-> Join(<<"\n">>, ShapeLines(shape, p)),
     table |-> IF HasTable(shape) THEN TableOf(p) ELSE << >>,
     table_line |-> IF HasTable(shape)
                    THEN 1 + Len(ShapeLines(SubSeq(shape, 1,
                             (CHOOSE k \in 1..Len(shape) : shape[k] = "table") - 1), p))
                    ELSE 0]

InitExtractor ==
    /\ pdf_pages \in UNION {{[p \in 1..n |-> PageOf(shapes[p], p)] :
                               shapes \in [1..n -> PageShapes]} : n \in 0..MaxPages}
    /\ extracted = NotRun
    /\ syllabus_raw = NotRun
    /\ SegmenterIdle /\ FilenameIdle /\ UnitsIdle /\ DatesIdle /\ AssessmentsIdle /\ AssemblerIdle /\ PoolIdle /\ RepositoryIdle /\ JoinIdle /\ DriverIdle

\* PDFPlumberExtractor.extract_tables(filepath)
ExtractTables ==
    /\ extracted = NotRun
    /\ extracted' = extract_tables(pdf_pages)
    /\ UNCHANGED <<pdf_pages, syllabus_raw, repoVars, joinVars, driverVars>>
    /\ UNCHANGED <<segVars, fileVars, unitVars, dateVars, examVars, asmVars, poolVars, repoVars, joinVars, driverVars>>

\* SyllabusRaw.from_pdf(filepath)
FromPdf ==
    /\ syllabus_raw = NotRun
    /\ syllabus_raw' = from_pdf(pdf_pages)
    /\ UNCHANGED <<pdf_pages, extracted, repoVars, joinVars, driverVars>>
    /\ UNCHANGED <<segVars, fileVars, unitVars, dateVars, examVars, asmVars, poolVars, repoVars, joinVars, driverVars>>

NextExtractor == ExtractTables \/ FromPdf

SpecExtractor == InitExtractor /\ [][NextExtractor]_vars


(***************************************************************************)
(* C16                                                                     *)
(***************************************************************************)
\* the last title among the lines, << >> when there is none
LastTitle(lines) ==
    LET ks == {k \in 1..Len(lines) : lines[k] \in SectionNameSet}
    IN  IF ks = {} THEN << >> ELSE lines[CHOOSE k \in ks : \A j \in ks : j <= k]

\* the lines of pages 1..k
RECURSIVE LinesThrough(_, _)
LinesThrough(pages, k) ==
    IF k = 0 THEN << >> ELSE LinesThrough(pages, k - 1) \o SplitLines(pages[k].text)

\* the section that is active on page k where its table begins (at_table) or
\* at the end of the page: the last title of the document down to there, the
\* section being carried from page to page and none before the first title
ActiveSection(pages, k, at_table) ==
    LastTitle(LinesThrough(pages, k - 1) \o
              IF at_table THEN SubSeq(SplitLines(pages[k].text), 1, pages[k].table_line - 1)
              ELSE SplitLines(pages[k].text))

\* the rows of the tables of pages 1..k whose active section is the title,
\* in page order
RECURSIVE RowsOfSection(_, _, _, _)
RowsOfSection(pages, k, title, at_table) ==
    IF k = 0 THEN << >>
    ELSE RowsOfSection(pages, k - 1, title, at_table) \o
         IF pages[k].table /= << >> /\ ActiveSection(pages, k, at_table) = title
         THEN pages[k].table ELSE << >>

Attributed(pages, at_table) ==
    [status |-> "ok",
     units |-> RowsOfSection(pages, Len(pages), UNITS_TITLE, at_table),
     assessments |-> RowsOfSection(pages, Len(pages), ASSESSMENTS_TITLE, at_table)]

\* C16: for any sequence of pages, the units table is the rows, in page and
\* row order, of the tables found while the unit-schedule section is active,
\* the section being carried over pages (empty or not) that do not begin
\* with a title; likewise the assessment table; a table before any title is
\* in neither.
C16_TablesFollowActiveSection ==
    /\ extracted /= NotRun => extracted = Attributed(pdf_pages, TRUE)
    /\ syllabus_raw /= NotRun => syllabus_raw = Attributed(pdf_pages, TRUE)

\* extract_tables attributes a table to the section active at the end of
\* its page
C16_ExtractTablesFollowsPageEnd ==
    extracted /= NotRun => extracted = Attributed(pdf_pages, FALSE)

\* SyllabusRaw.from_pdf does the same on documents without an empty page and
\* raises on the others
C16_FromPdfFollowsPageEndOrRaises ==
    syllabus_raw /= NotRun =>
        IF \E k \in 1..Len(pdf_pages) : pdf_pages[k].text = << >>
        THEN syllabus_raw.status = "IndexError"
        ELSE syllabus_raw = Attributed(pdf_pages, FALSE)


(***************************************************************************)
(* C17                                                                     *)
(***************************************************************************)
StrictlyAscending(list) ==
    \A j \in 1..Len(list), k \in 1..Len(list) : j < k => list[j].number < list[k].number

\* C17: the units of every Course the assembler builds, and of the record
\* saved for it, are in strictly ascending order of number, no number twice,
\* whatever the titles of the unit table.
C17_UnitsStrictlyAscending ==
    /\ course.status = "ok" => StrictlyAscending(course.course.units)
    /\ saved.status = "ok" => StrictlyAscending(saved.record.units)

\* the units of a Course are those of the table, in the order of the table
C17_UnitsInTableOrder ==
    course.status = "ok" =>
        /\ Len(course.course.units) = Len(document.tables.units) \div 5
        /\ \A k \in 1..Len(course.course.units) :
              document.tables.units[5 * k - 4] = TitleRow(course.course.units[k].number)


(***************************************************************************)
(* C18                                                                     *)
(***************************************************************************)
\* 0 <= weight <= 100 (in tenths) and week >= 1
InRange(a) == 0 <= a.weight /\ a.weight <= 1000 /\ a.week >= 1

\* C18: every Assessment the reconstructor emits has 0 <= weight <= 100 and
\* week >= 1, whatever the raw table: also with weight cells "150%" and "-5%"
\* and week cells "0" and "-3".
C18_WeightAndWeekInRange ==
    assessments.status = "ok" =>
        \A k \in 1..Len(assessments.list) : InRange(assessments.list[k])

\* the weight and the week of an emitted Assessment are the numbers of the
\* row's cells, whatever their range
C18_WeightAndWeekAsWritten ==
    assessments.status = "ok" =>
        LET kept == RowsWithWeek(assessments_table)
        IN  /\ Len(assessments.list) = Len(kept)
            /\ \A k \in 1..Len(kept) :
                  /\ assessments.list[k].week = IntOf(ReplaceNewlines(kept[k][4]))
                  /\ FloatOk(RStripPercent(Strip(kept[k][3]))) =>
                        assessments.list[k].weight = FloatOf(RStripPercent(Strip(kept[k][3])))


(***************************************************************************)
(* C19                                                                     *)
(***************************************************************************)
\* the dates of a unit or an assessment of the record are those of the
\* calendar rule, for the period p with start_date S and end_date E: a unit
\* of weeks (w1, w2) runs from S + (w1-1) weeks to E + (w2-1) weeks, an
\* assessment of week w from S + (w-1) weeks to that date + 5 days
RecordDatesByRule(record, p) ==
    LET S == ConfigData[p].start_date
        E == ConfigData[p].end_date
    IN  /\ \A k \in 1..Len(record.units) :
              /\ record.units[k].initial_date = S + 7 * (record.units[k].initial_week - 1)
              /\ record.units[k].last_date = E + 7 * (record.units[k].last_week - 1)
        /\ \A k \in 1..Len(record.assessments) :
              /\ record.assessments[k].initial_date = S + 7 * (record.assessments[k].week - 1)
              /\ record.assessments[k].last_date = record.assessments[k].initial_date + 5

\* the record has a unit or an assessment, so that it has dates
HasDates(record) == record.units /= << >> \/ record.assessments /= << >>

\* C19: in every record written for a course the dates of each unit and each
\* assessment are those the calendar rule gives for the course's period and
\* the item's weeks; for a period that is not in the configuration no record
\* with dates is written.
C19_RecordDatesFromPeriodAndWeeks ==
    (saved.status = "ok" /\ HasDates(saved.record)) =>
        /\ Text(saved.record.period) \in DOMAIN ConfigData
        /\ RecordDatesByRule(saved.record, Text(saved.record.period))

\* JSONRepository.save writes the same two dates for every unit and every
\* assessment, whatever the period and the weeks
C19_SavedDatesAreFixed ==
    saved.status = "ok" =>
        /\ \A k \in 1..Len(saved.record.units) :
              /\ saved.record.units[k].initial_date = FixedInitialDate
              /\ saved.record.units[k].last_date = FixedLastDate
        /\ \A k \in 1..Len(saved.record.assessments) :
              /\ saved.record.assessments[k].initial_date = FixedInitialDate
              /\ saved.record.assessments[k].last_date = FixedLastDate

\* the earlier draft, Course.to_json with Unit.to_dict and Exam.to_dict,
\* computes the dates by the rule from the period of the file name and
\* raises KeyError for a period that is not in the configuration
C19_DraftDatesFromPeriodAndWeeks ==
    (draft_saved /= NotRun /\ HasDates(draft_course.course)) =>
        LET p == Text(syllabus_raw_meta(document.filename).period)
        IN  IF p \in DOMAIN ConfigData
            THEN draft_saved.status = "ok" /\ RecordDatesByRule(draft_saved.record, p)
            ELSE draft_saved.status = "KeyError"


(***************************************************************************)
(* JSONRepository.save by two workers of the pool at once                  *)
(*                                                                         *)
(* save opens the file for writing, which creates it or empties it, and    *)
(* then dumps the record into it; the two steps of one worker can have the *)
(* steps of the other one between them.  What is in a file is what the     *)
(* last dump put there.                                                    *)
(***************************************************************************)
Savers == {1, 2}

RepoFilenames ==
    { <<"U", "G", "-", "2", "0", "2", "5", "2", "0", "_",
        "1", "A", "E", "L", "0", "2", "4", "4", "-", "8", "2", "8", "1", ".", "p", "d", "f">>,
      \* another course with the same nrc
      <<"U", "G", "-", "2", "0", "2", "5", "2", "0", "_",
        "1", "A", "M", "A", "0", "1", "0", "2", "-", "8", "2", "8", "1", ".", "p", "d", "f">>,
      <<"U", "G", "-", "2", "0", "2", "5", "2", "0", "_",
        "1", "A", "M", "A", "0", "1", "0", "2", "-", "0", "0", "4", "2", ".", "p", "d", "f">> }

RepoDocuments ==
    { [filename |-> f,
       text |-> << Join(<<"\n">>, <<SECTION_NAMES[1]>> \o n \o <<SECTION_NAMES[2]>>) >>,
       tables |-> [units |-> << >>, assessments |-> << >>]] :
        f \in RepoFilenames, n \in NameLines }

\* the Courses process_syllabus hands to repository.save
RepoCourses == {built_course(d).course : d \in RepoDocuments}

\* the Course of worker w
CourseOf(w) == batch[w]

InitRepository ==
    /\ batch \in [Savers -> RepoCourses]
    /\ save_pc = [w \in Savers |-> "start"]
    /\ files = [f \in {} |-> "empty"]
    /\ SegmenterIdle /\ FilenameIdle /\ UnitsIdle /\ DatesIdle /\ AssessmentsIdle /\ AssemblerIdle /\ PoolIdle /\ ExtractorIdle /\ JoinIdle /\ DriverIdle

WriteFile(f, content) ==
    [g \in DOMAIN files \cup {f} |-> IF g = f THEN content ELSE files[g]]

\* with open(filepath, 'w', encoding='utf-8') as f
OpenFile ==
    \E w \in Savers :
        /\ save_pc[w] = "start"
        /\ files' = WriteFile(save(CourseOf(w)).file, "empty")
        /\ save_pc' = [save_pc EXCEPT ![w] = "open"]
        /\ UNCHANGED batch
        /\ UNCHANGED <<segVars, fileVars, unitVars, dateVars, examVars, asmVars, poolVars, extVars, joinVars, driverVars>>

\* json.dump(self._to_dict(course), f, ...) and the end of the with block
Dump ==
    \E w \in Savers :
        /\ save_pc[w] = "open"
        /\ files' = WriteFile(save(CourseOf(w)).file, save(CourseOf(w)).record)
        /\ save_pc' = [save_pc EXCEPT ![w] = "closed"]
        /\ UNCHANGED batch
        /\ UNCHANGED <<segVars, fileVars, unitVars, dateVars, examVars, asmVars, poolVars, extVars, joinVars, driverVars>>

NextRepository == OpenFile \/ Dump

SpecRepository == InitRepository /\ [][NextRepository]_vars

(***************************************************************************)
(* C20                                                                     *)
(***************************************************************************)
\* the identity of the course of worker w
Identity(w) == <<CourseOf(w).metadata.course_id, CourseOf(w).metadata.nrc>>

BothSaved == \A w \in Savers : save_pc[w] = "closed"

\* the file of worker w holds the record of its course
FileKept(w) ==
    /\ save(CourseOf(w)).file \in DOMAIN files
    /\ files[save(CourseOf(w)).file] = save(CourseOf(w)).record

\* C20: two documents that differ in course_id or in nrc are saved to
\* different files, and however the two saves interleave both files hold
\* their course once both saves are done.
C20_DistinctIdentityDistinctFiles ==
    Identity(1) /= Identity(2) =>
        /\ save(CourseOf(1)).file /= save(CourseOf(2)).file
        /\ BothSaved => (FileKept(1) /\ FileKept(2))

\* the file is keyed by the name of the course and the nrc: the two files
\* are one when these are the same, and else both are kept
C20_FilesKeyedByNameAndNrc ==
    /\ save(CourseOf(1)).file = save(CourseOf(2)).file
          <=> /\ CourseOf(1).name = CourseOf(2).name
              /\ CourseOf(1).metadata.nrc = CourseOf(2).metadata.nrc
    /\ (BothSaved /\ save(CourseOf(1)).file /= save(CourseOf(2)).file)
          => (FileKept(1) /\ FileKept(2))


(***************************************************************************)
(* join_with_previous on its own: one call on a table and an index         *)
(***************************************************************************)
MaxJoinRows == 3

\* rows of five cells, of one cell and of six cells, some cells empty
JoinRows ==
    { WeekRow(<<1, 4>>),
      AchievementRow,
      Row5(<<"experimentales">>, <<"Tema C">>, << >>),
      <<<<"en", " ", "circuitos">>>>,
      <<<<"y">>, << >>, <<"Taller">>, << >>, << >>, <<"Anexo">>>> }

JoinTables == UNION {[1..n -> JoinRows] : n \in 1..MaxJoinRows}

InitJoin ==
    /\ join_table \in JoinTables
    /\ join_index \in 0..MaxJoinRows
    /\ joined = NotRun
    /\ SegmenterIdle /\ FilenameIdle /\ UnitsIdle /\ DatesIdle /\ AssessmentsIdle /\ AssemblerIdle /\ PoolIdle /\ ExtractorIdle /\ RepositoryIdle /\ DriverIdle

\* join_with_previous(join_index)
JoinWithPrevious ==
    /\ joined = NotRun
    /\ joined' = [status |-> "ok", table |-> join_with_previous(join_table, join_index)]
    /\ UNCHANGED <<join_table, join_index, driverVars>>
    /\ UNCHANGED <<segVars, fileVars, unitVars, dateVars, examVars, asmVars, poolVars, extVars, repoVars, driverVars>>

NextJoin == JoinWithPrevious

SpecJoin == InitJoin /\ [][NextJoin]_vars

(***************************************************************************)
(* C21                                                                     *)
(***************************************************************************)
Max(a, b) == IF a >= b THEN a ELSE b

\* the index is one join_with_previous acts on: 0 < index < len(table)
Joins == joined /= NotRun /\ 0 < join_index /\ join_index < Len(join_table)

\* cell k of the merge of the rows, cell by cell: the cell of the previous
\* row and the cell of the fragment with a space between them (blanks at the
\* ends apart), the previous row's own cell where the fragment has none or
\* an empty one, the fragment's cell where only the fragment has one
MergedCell(prev_row, curr_row, k) ==
    IF k > Len(prev_row) THEN curr_row[k]
    ELSE IF k > Len(curr_row) \/ curr_row[k] = << >> THEN prev_row[k]
    ELSE Strip(Strip(prev_row[k]) \o <<" ">> \o Strip(curr_row[k]))

\* the table is one row shorter and the rows that are not merged are as
\* they were
OtherRowsKept ==
    /\ Len(joined.table) = Len(join_table) - 1
    /\ \A j \in 1..(join_index - 1) : joined.table[j] = join_table[j]
    /\ \A j \in (join_index + 1)..Len(joined.table) : joined.table[j] = join_table[j + 1]

\* C21: the merged row has max(len(previous), len(fragment)) cells, each the
\* cell-wise merge of the two rows, so that nothing of the previous row is
\* lost; the table is one row shorter and the other rows are unchanged.
C21_MergeKeepsPreviousRow ==
    Joins =>
        LET prev_row == join_table[join_index]
            curr_row == join_table[join_index + 1]
            merged == joined.table[join_index]
        IN  /\ OtherRowsKept
            /\ Len(merged) = Max(Len(prev_row), Len(curr_row))
            /\ \A k \in 1..Len(merged) : merged[k] = MergedCell(prev_row, curr_row, k)

\* the merged row has as many cells as the fragment: the cells of the
\* previous row beyond the fragment's last one are dropped
C21_MergedRowAsLongAsFragment ==
    Joins =>
        LET prev_row == join_table[join_index]
            curr_row == join_table[join_index + 1]
            merged == joined.table[join_index]
        IN  /\ OtherRowsKept
            /\ Len(merged) = Len(curr_row)
            /\ \A k \in 1..Len(merged) : merged[k] = MergedCell(prev_row, curr_row, k)


(***************************************************************************)
(* C22                                                                     *)
(***************************************************************************)
\* the week rows that come after the week row of a block
ExtraWeekRows == {WeekRow(<<13, 14>>), WeekRow(<<15, 16>>)}

NotExtra(row) == row \notin ExtraWeekRows

\* the table without its extra week rows
WithoutExtra(table) == SelectSeq(table, NotExtra)

\* blocks of five rows, one of them with further week rows after its week row
HasExtraWeekRows(table) ==
    /\ table /= WithoutExtra(table)
    /\ IsBlockTable(WithoutExtra(table))
    /\ \A q \in 1..Len(table) :
          table[q] \in ExtraWeekRows =>
              /\ q > 1
              /\ \/ table[q - 1] \in ExtraWeekRows
                 \/ \E w \in OrderedPairs : table[q - 1] = WeekRow(w)

\* C22: a block with several week rows under its title gives one Unit, with
\* the weeks of the first week row; the other week rows give no Unit, leave
\* the later blocks in their places and raise nothing.
C22_ExtraWeekRowsGiveOneUnit ==
    (HasExtraWeekRows(units_table) /\ units /= NotRun) =>
        /\ units.status = "ok"
        /\ OneUnitPerBlock(units.list, WithoutExtra(units_table))

\* two blocks, the first with three week rows: two Units, weeks (1, 4) and
\* (9, 12)
C22_Witness ==
    /\ units_table = UnitBlock(1, <<1, 4>>) \o <<WeekRow(<<13, 14>>), WeekRow(<<15, 16>>)>>
                        \o UnitBlock(2, <<9, 12>>)
    /\ units.status = "ok"
    /\ Len(units.list) = 2
    /\ units.list[1].week_range = <<1, 4>>
    /\ units.list[2].week_range = <<9, 12>>



(***************************************************************************)
(* extract and transform of etl_courses.py: the sequential driver          *)
(*                                                                         *)
(* extract reads the PDF files that find_syllabi returned, one after the   *)
(* other, and transform turns the list extract returned into Courses.      *)
(* Each of the two has its for loop inside one try statement.              *)
(***************************************************************************)
MaxBatch == 3

DriverFilename ==
    <<"U", "G", "-", "2", "0", "2", "5", "2", "0", "_",
      "1", "A", "E", "L", "0", "2", "4", "4", "-", "8", "2", "8", "1", ".", "p", "d", "f">>

\* a page with the general information, the title of the unit section and
\* the unit table, whose rows are lines of the text as well
DriverPage(name, table) ==
    [text |-> Join(<<"\n">>, <<SECTION_NAMES[1], InfoLine("Nombre del Curso", name),
                              SECTION_NAMES[2], SECTION_NAMES[6]>>
                             \o [r \in 1..Len(table) |-> Join(<<" ">>, table[r])]),
     table |-> table]

\* a page without text, as of a scanned document
BlankPage == [text |-> << >>, table |-> << >>]

\* the files: two courses, each with a whole unit table or with one that the
\* extraction cut after its fourth row, and a scanned document
DriverPdfs ==
    { [filename |-> DriverFilename, pages |-> <<DriverPage(n, t)>>] :
        n \in {<<"Circuitos">>, <<"Redes">>},
        t \in {UnitBlock(1, <<1, 4>>), SubSeq(UnitBlock(1, <<1, 4>>), 1, 4)} }
    \cup { [filename |-> DriverFilename, pages |-> <<BlankPage>>] }

\* SyllabusRaw.from_pdf(filepath): the SyllabusRaw or the exception
syllabus_raw_from_pdf(pdf) ==
    LET r == from_pdf(pdf.pages)
    IN  IF r.status /= "ok" THEN [status |-> r.status]
        ELSE [status |-> "ok",
              raw |-> [filename |-> pdf.filename,
                       text |-> [k \in 1..Len(pdf.pages) |-> pdf.pages[k].text],
                       tables |-> [units |-> r.units, assessments |-> r.assessments]]]

\* the for loop of extract from file k on; the except clause of the try
\* statement around the loop prints the exception, and the list as it is then
\* is returned
RECURSIVE extract_from(_, _, _)
extract_from(paths, k, acc) ==
    IF k > Len(paths) THEN [status |-> "ok", list |-> acc, error |-> "none"]
    ELSE LET raw == syllabus_raw_from_pdf(paths[k])
         IN  IF raw.status /= "ok"
             THEN [status |-> "ok", list |-> acc, error |-> raw.status]
             ELSE extract_from(paths, k + 1, Append(acc, raw.raw))

extract(paths) == extract_from(paths, 1, << >>)

\* the for loop of transform from syllabus k on, likewise
RECURSIVE transform_from(_, _, _)
transform_from(syllabi, k, acc) ==
    IF k > Len(syllabi) THEN [status |-> "ok", list |-> acc, error |-> "none"]
    ELSE LET made == course_from_raw(syllabi[k])
         IN  IF made.status /= "ok"
             THEN [status |-> "ok", list |-> acc, error |-> made.status]
             ELSE transform_from(syllabi, k + 1, Append(acc, made.course))

transform(syllabi) == transform_from(syllabi, 1, << >>)

InitDriver ==
    /\ syllabi_path \in UNION {[1..n -> DriverPdfs] : n \in 0..MaxBatch}
    /\ syllabi_raw = NotRun
    /\ courses = NotRun
    /\ SegmenterIdle /\ FilenameIdle /\ UnitsIdle /\ DatesIdle /\ AssessmentsIdle /\ AssemblerIdle /\ PoolIdle /\ ExtractorIdle /\ RepositoryIdle /\ JoinIdle

\* syllabi_raw = extract(cwd)
Extract ==
    /\ syllabi_raw = NotRun
    /\ syllabi_raw' = extract(syllabi_path)
    /\ UNCHANGED <<syllabi_path, courses>>
    /\ UNCHANGED <<segVars, fileVars, unitVars, dateVars, examVars, asmVars, poolVars, extVars, repoVars, joinVars>>

\* courses = transform(syllabi_raw)
TransformSyllabi ==
    /\ syllabi_raw /= NotRun
    /\ courses = NotRun
    /\ courses' = transform(syllabi_raw.list)
    /\ UNCHANGED <<syllabi_path, syllabi_raw>>
    /\ UNCHANGED <<segVars, fileVars, unitVars, dateVars, examVars, asmVars, poolVars, extVars, repoVars, joinVars>>

NextDriver == Extract \/ TransformSyllabi

SpecDriver == InitDriver /\ [][NextDriver]_vars

(***************************************************************************)
(* C23                                                                     *)
(***************************************************************************)
\* the outcome of SyllabusRaw.from_pdf on every file of the list
RECURSIVE ReadOutcomes(_)
ReadOutcomes(paths) ==
    IF paths = << >> THEN << >>
    ELSE <<syllabus_raw_from_pdf(Head(paths))>> \o ReadOutcomes(Tail(paths))

\* the outcome of Course.from_raw on every syllabus of the list
RECURSIVE TransformOutcomes(_)
TransformOutcomes(syllabi) ==
    IF syllabi = << >> THEN << >>
    ELSE <<course_from_raw(Head(syllabi))>> \o TransformOutcomes(Tail(syllabi))

\* what the successful ones among the first n outcomes made, in order
RECURSIVE MadeBy(_, _, _)
MadeBy(outs, n, field) ==
    IF n = 0 THEN << >>
    ELSE MadeBy(outs, n - 1, field)
             \o (IF outs[n].status = "ok" THEN <<outs[n][field]>> ELSE << >>)

\* how many outcomes there are before the first failure
BeforeFirstFailure(outs) ==
    LET bad == {k \in 1..Len(outs) : outs[k].status /= "ok"}
    IN  IF bad = {} THEN Len(outs) ELSE (CHOOSE k \in bad : \A j \in bad : k <= j) - 1

\* C23: a failure on one document does not end the batch: extract returns the
\* SyllabusRaw of every file that can be read, and transform the Course of
\* every syllabus that can be transformed, those after a failing one included
C23_FailureDoesNotAbortBatch ==
    /\ syllabi_raw /= NotRun =>
          \A outs \in {ReadOutcomes(syllabi_path)} :
              syllabi_raw.list = MadeBy(outs, Len(outs), "raw")
    /\ courses /= NotRun =>
          \A outs \in {TransformOutcomes(syllabi_raw.list)} :
              courses.list = MadeBy(outs, Len(outs), "course")

\* what the two loops return instead: the documents before the first failing
\* one, and nothing of those after it
C23_BatchEndsAtFirstFailure ==
    /\ syllabi_raw /= NotRun =>
          \A outs \in {ReadOutcomes(syllabi_path)} :
              /\ syllabi_raw.list = MadeBy(outs, BeforeFirstFailure(outs), "raw")
              /\ syllabi_raw.error = (IF FirstFailure(outs) = "ok" THEN "none"
                                      ELSE FirstFailure(outs))
    /\ courses /= NotRun =>
          \A outs \in {TransformOutcomes(syllabi_raw.list)} :
              /\ courses.list = MadeBy(outs, BeforeFirstFailure(outs), "course")
              /\ courses.error = (IF FirstFailure(outs) = "ok" THEN "none"
                                  ELSE FirstFailure(outs))

\* three syllabi of which the second has the cut table: one Course is returned
C23_LaterDocumentsLost ==
    /\ courses /= NotRun
    /\ Len(syllabi_raw.list) = 3
    /\ \A outs \in {TransformOutcomes(syllabi_raw.list)} :
          BeforeFirstFailure(outs) = 1 /\ outs[3].status = "ok"
    /\ Len(courses.list) = 1
    /\ courses.error = "IndexError"



(***************************************************************************)
(* C24                                                                     *)
(***************************************************************************)
\* the weight cell of a row, trimmed
WeightCell(r) == Strip(r[3])

EndsWithPercent(cell) == cell /= << >> /\ cell[Len(cell)] = "%"

\* the number the weight cell stands for: the cell without one trailing '%'
WrittenWeight(cell) == IF EndsWithPercent(cell) THEN DropLast(cell) ELSE cell

\* every weight cell that is a number, with or without a trailing '%', gives
\* that number
WeightsAsWritten(list, table) ==
    LET kept == RowsWithWeek(table)
    IN  /\ Len(list) = Len(kept)
        /\ \A k \in 1..Len(kept) :
              FloatOk(WrittenWeight(WeightCell(kept[k]))) =>
                  list[k].weight = FloatOf(WrittenWeight(WeightCell(kept[k])))

\* C24: Exam.from_raw removes a trailing percent sign only: the weight cells
\* "20%" and "20" both give weight 20.0, and a numeric cell without a trailing
\* '%' gives its own value.
C24_ExamWeightWithoutPercent ==
    exams.status = "ok" => WeightsAsWritten(exams.list, assessments_table)

\* what Exam.from_raw does: the last character of the cell is dropped,
\* whatever it is, and what is left is the weight, 0.0 when it is no number
C24_ExamWeightDropsLastCharacter ==
    exams.status = "ok" =>
        LET kept == RowsWithWeek(assessments_table)
        IN  /\ Len(exams.list) = Len(kept)
            /\ \A k \in 1..Len(kept) :
                  exams.list[k].weight =
                      IF FloatOk(DropLast(WeightCell(kept[k])))
                      THEN FloatOf(DropLast(WeightCell(kept[k])))
                      ELSE 0

\* the pipeline's parser, with rstrip('%'), gives "20%" and "20" the same
\* weight and a number without '%' its own value
C24_PipelineWeightWithoutPercent ==
    assessments.status = "ok" => WeightsAsWritten(assessments.list, assessments_table)

\* the rows "20%" and "20" in one table: Exam.from_raw gives 20.0 and 2.0
C24_TwentyReadAsTwo ==
    /\ exams.status = "ok"
    /\ Len(assessments_table) = 2
    /\ WeightCell(assessments_table[1]) = <<"2", "0", "%">>
    /\ WeightCell(assessments_table[2]) = <<"2", "0">>
    /\ exams.list[1].weight = 200
    /\ exams.list[2].weight = 20

=============================================================================
